---- MODULE Spec2Model ----
(***************************************************************************)
(* Model of the video-upload front end: the localStorage history           *)
(* (src/lib/videoStorage.ts), the scene auto-selection of Timeline, the    *)
(* in-memory videoStore of the /api/videos route with its simulated        *)
(* processing timers, the status pollers and the Upload form.              *)
(*                                                                         *)
(* Each subsystem has its own specification over the shared variables:     *)
(*   SpecStorage  videoStorage.save / delete / clear                       *)
(*   SpecScenes   Timeline.loadVideoAnalysis / autoSelectScenes            *)
(*   SpecServer   POST /api/videos and the simulateProcessing timers       *)
(*   SpecPoller   StatusPoller / SimpleStatusPoller                        *)
(*   SpecUpload   Upload / SimpleUpload                                    *)
(***************************************************************************)
EXTENDS Integers, Sequences, FiniteSets, Bags, TLC

VARIABLES
    history,      \* localStorage['video_analysis_history'], parsed: Seq(StoredVideo)
    nextVideoId,  \* the next identifier the backend will hand out
    lastOp,       \* history variable: the videoStorage call made by the last step
    analysis,     \* Timeline: what loadAnalysis(videoId) answers
    scenes,       \* Timeline: scenes
    selectedIds,  \* Timeline: selectedIds
    tlLoading,    \* Timeline: loading
    tlError,      \* Timeline: error
    tlEvent,      \* history variable: what the last Timeline step did
    videoStore,   \* route.ts: videoStore, a Map from id to video record
    timers,       \* route.ts: the setTimeout callbacks of simulateProcessing not yet run
    uuidCount,    \* route.ts: how many times randomUUID() was called
    srvEvent,     \* history variable: the request the server handled last, and its answer
    poller,       \* which status poller component is mounted
    pMounted,     \* the poller is mounted
    pClosure,     \* the videoId each effect's pollStatus closes over; the last is the prop
    pStatus,      \* the poller's status state: what it displays
    pLoading,     \* StatusPoller: loading
    pEffect,      \* the number of useEffect runs so far; the last one is the current effect
    pLive,        \* the effects run by the component instance that is mounted now
    pInterval,    \* the effects whose setInterval timer is active
    pRequests,    \* status requests issued and not yet answered
    pIssued,      \* how many status requests were issued
    backend,      \* the status the polled endpoint holds for each video
    pDone,        \* history variable: the effects that handled a terminal answer
    pLast,        \* history variable: what the last poller step did
    uploader,     \* which upload form is mounted: Upload or SimpleUpload
    upFile,       \* Upload: file
    upUrl,        \* Upload: url
    upVideoId,    \* Upload: videoId (SimpleUpload: vid); 0 is null
    upLoading,    \* Upload: loading
    upError,      \* Upload: error
    currentView,  \* Upload: currentView
    upEffectDue,  \* Upload: the useEffect on [videoId] has to run for the current videoId
    upRequests,   \* upload requests issued and not yet answered
    upIssued,     \* how many upload requests were issued
    upLast,       \* history variable: what the last step of the form did
    hvVideos,     \* VideoHistory: videos (<<>> while VideoHistory is not mounted)
    tlVideoId,    \* Timeline: the videoId prop
    tlPending,    \* Timeline: calls of loadAnalysis that have not returned
    showTemplates,       \* Timeline: showTemplates
    generating,          \* Timeline: generating
    editRequests,        \* requests to /api/edits sent and not yet answered
    editsSent,           \* how many requests to /api/edits were sent
    lastEdit,            \* history variable: the last request sent to /api/edits
    selectedTemplate,    \* TemplateSelector: selectedTemplate (its id)
    customAspectRatios,  \* TemplateSelector: customAspectRatios
    customDurations,     \* TemplateSelector: customDurations
    customCaptions,      \* TemplateSelector: customCaptions
    tsLast        \* history variable: what the last step of TemplateSelector did

storageVars == <<history, nextVideoId, lastOp>>
templateVars == <<selectedTemplate, customAspectRatios, customDurations,
                  customCaptions, tsLast>>
timelineVars == <<analysis, scenes, selectedIds, tlLoading, tlError, tlEvent>>
editVars    == <<tlVideoId, tlPending, showTemplates, generating, editRequests,
                 editsSent, lastEdit>>
sceneVars   == <<analysis, scenes, selectedIds, tlLoading, tlError, tlEvent,
                 tlVideoId, tlPending, showTemplates, generating, editRequests,
                 editsSent, lastEdit,
                 selectedTemplate, customAspectRatios, customDurations,
                 customCaptions, tsLast>>
serverVars  == <<videoStore, timers, uuidCount, srvEvent>>
pollerVars  == <<poller, pMounted, pClosure, pStatus, pLoading, pEffect, pLive,
                 pInterval, pRequests, pIssued, backend, pDone, pLast>>
uploadVars  == <<uploader, upFile, upUrl, upVideoId, upLoading, upError,
                 currentView, upEffectDue, upRequests, upIssued, upLast, hvVideos>>
vars        == <<history, nextVideoId, lastOp,
                 analysis, scenes, selectedIds, tlLoading, tlError, tlEvent,
                 tlVideoId, tlPending, showTemplates, generating, editRequests,
                 editsSent, lastEdit,
                 selectedTemplate, customAspectRatios, customDurations,
                 customCaptions, tsLast,
                 videoStore, timers, uuidCount, srvEvent,
                 poller, pMounted, pClosure, pStatus, pLoading, pEffect, pLive,
                 pInterval, pRequests, pIssued, backend, pDone, pLast,
                 uploader, upFile, upUrl, upVideoId, upLoading, upError,
                 currentView, upEffectDue, upRequests, upIssued, upLast, hvVideos>>

(***************************************************************************)
(* Bounds of the model.                                                    *)
(***************************************************************************)
MaxVideos   == 52   \* identifiers the backend hands out in SpecStorage
MaxTargetId == 2    \* videos 1..MaxTargetId are the ones deleted / re-saved
MaxScenes   == 5    \* longest scene list
MaxUuids    == 2    \* randomUUID() calls of the server in SpecServer
MaxPolls    == 2    \* status requests a poller issues in SpecPoller
MaxEffects  == 2    \* useEffect runs of a poller in SpecPoller
MaxUploads  == 2    \* upload requests a form issues in SpecUpload
MaxLoads    == 2    \* videoId props a mounted Timeline is given in SpecEdits
MaxEdits    == 1    \* requests to /api/edits in SpecEdits
MaxEditScenes == 2  \* longest chapter list in SpecEdits
MaxInFlight == 2    \* unanswered status requests of a poller in SpecPollerLive

Min(a, b) == IF a < b THEN a ELSE b

\* Array.prototype.slice(0, n)
slice(s, n) == SubSeq(s, 1, Min(n, Len(s)))

(***************************************************************************)
(* videoStorage (src/lib/videoStorage.ts)                                  *)
(*                                                                         *)
(* A StoredVideo is a function from field names to values.  Of the         *)
(* interface's fields the model keeps videoId, status and the optional     *)
(* fileSize; a field that is absent is outside the DOMAIN, a field present *)
(* with the value undefined maps to Undefined; a number n is Some(n).      *)
(***************************************************************************)
Undefined == <<>>

Some(n) == <<n>>

\* the fields of StoredVideo declared with '?'
OptionalFields == {"fileSize"}

Status == {"uploading", "processing", "indexing", "completed", "error"}

MAX_HISTORY == 50

StatusOrder == <<"uploading", "processing", "indexing", "completed">>

\* position of a status in uploading -> processing -> indexing -> completed,
\* 0 for a status outside that order
Rank(status) ==
    IF \E i \in 1..Len(StatusOrder) : StatusOrder[i] = status
    THEN CHOOSE i \in 1..Len(StatusOrder) : StatusOrder[i] = status
    ELSE 0

\* createStoredVideo(videoId, name, fileSize): fileSize is always a key of the
\* literal, with the value undefined when the upload was a URL
createStoredVideo(videoId, fileSize) ==
    [videoId |-> videoId, status |-> "uploading", fileSize |-> fileSize]

\* JSON.parse(JSON.stringify(video)): a key whose value is undefined is dropped
JSONRoundTripVideo(video) ==
    [f \in {g \in DOMAIN video : g \notin OptionalFields \/ video[g] # Undefined}
        |-> video[f]]

JSONRoundTrip(videos) ==
    [i \in 1..Len(videos) |-> JSONRoundTripVideo(videos[i])]

spreadMutant(a, b) ==
    [f \in DOMAIN a \cup DOMAIN b |-> IF f \in DOMAIN a THEN a[f] ELSE b[f]]

\* { ...a, ...b }
spread(a, b) ==
    [f \in DOMAIN a \cup DOMAIN b |-> IF f \in DOMAIN b THEN b[f] ELSE a[f]]

\* videos.findIndex(v => v.videoId === videoId): 0-based, -1 when absent
findIndex(videos, videoId) ==
    IF \E i \in 1..Len(videos) : videos[i].videoId = videoId
    THEN (CHOOSE i \in 1..Len(videos) :
              /\ videos[i].videoId = videoId
              /\ \A j \in 1..(i - 1) : videos[j].videoId # videoId) - 1
    ELSE -1

\* videoStorage.getAll on the stored value
getAll(stored) == stored

\* videoStorage.get: the first entry with that videoId, or null
HasVideo(stored, videoId) ==
    \E i \in 1..Len(stored) : stored[i].videoId = videoId

get(stored, videoId) ==
    getAll(stored)[findIndex(getAll(stored), videoId) + 1]

\* the array save() trims: videos after the update in place or the unshift
saveTrimMutant(videos) == videos

saveTrim(videos) == slice(videos, MAX_HISTORY)

saveInsertMutant(videos, video) == Append(videos, video)

saveInsert(videos, video) == <<video>> \o videos

\* videoStorage.save: the value stored afterwards
save(stored, video) ==
    LET videos == getAll(stored)
        existingIndex == findIndex(videos, video.videoId)
        updated ==
            IF existingIndex >= 0
            THEN [videos EXCEPT ![existingIndex + 1] =
                                    spread(videos[existingIndex + 1], video)]
            ELSE saveInsert(videos, video)
    IN  JSONRoundTrip(saveTrim(updated))

\* videoStorage.delete: the value stored afterwards
delete(stored, videoId) ==
    LET Other(v) == v.videoId # videoId
    IN  JSONRoundTrip(SelectSeq(getAll(stored), Other))

\* videoStorage.clear: removeItem; getAll then yields []
clear == <<>>

(***************************************************************************)
(* SpecStorage: any sequence of save, delete and clear from an empty       *)
(* history.  New videos carry fresh identifiers, in the order the backend  *)
(* hands them out.                                                         *)
(***************************************************************************)
FileSizes == {Undefined, Some(1)}

\* the argument of a call that takes no StoredVideo
NoVideo == [videoId |-> 0]

StorageSaveNew(fileSize) ==
    /\ nextVideoId <= MaxVideos
    /\ lastOp' = [op |-> "save", videoId |-> nextVideoId, isNew |-> TRUE,
                  wasFull |-> Len(history) = MAX_HISTORY,
                  video |-> createStoredVideo(nextVideoId, fileSize)]
    /\ history' = save(history, createStoredVideo(nextVideoId, fileSize))
    /\ nextVideoId' = nextVideoId + 1

\* save of a video read back from the history with another status
\* (Upload.tsx:198-200 does this with 'processing')
StorageSaveExisting(videoId, status) ==
    /\ HasVideo(history, videoId)
    /\ lastOp' = [op |-> "save", videoId |-> videoId, isNew |-> FALSE,
                  wasFull |-> Len(history) = MAX_HISTORY,
                  video |-> spread(get(history, videoId), [status |-> status])]
    /\ history' = save(history, spread(get(history, videoId), [status |-> status]))
    /\ UNCHANGED nextVideoId

\* save of a newly created StoredVideo whose videoId is in the history already
StorageSaveAgain(videoId, fileSize) ==
    /\ HasVideo(history, videoId)
    /\ lastOp' = [op |-> "save", videoId |-> videoId, isNew |-> FALSE,
                  wasFull |-> Len(history) = MAX_HISTORY,
                  video |-> createStoredVideo(videoId, fileSize)]
    /\ history' = save(history, createStoredVideo(videoId, fileSize))
    /\ UNCHANGED nextVideoId

StorageDelete(videoId) ==
    /\ lastOp' = [op |-> "delete", videoId |-> videoId, isNew |-> FALSE,
                  wasFull |-> Len(history) = MAX_HISTORY, video |-> NoVideo]
    /\ history' = delete(history, videoId)
    /\ UNCHANGED nextVideoId

StorageClear ==
    /\ lastOp' = [op |-> "clear", videoId |-> 0, isNew |-> FALSE,
                  wasFull |-> Len(history) = MAX_HISTORY, video |-> NoVideo]
    /\ history' = clear
    /\ UNCHANGED nextVideoId

(***************************************************************************)
(* The templates (src/unnamed/part_005, imported as @/types/template) and  *)
(* TemplateSelector (src/components/TemplateSelector.tsx; src/unnamed/     *)
(* part_001 is the same component with another layout).                    *)
(***************************************************************************)
AspectRatio == {"9:16", "1:1", "16:9"}

CaptionStyle == {"burned", "sidecar", "off"}

\* the durations the selector offers: [6, 15, 30].map(...)
DurationChoices == {6, 15, 30}

defaultTemplates ==
    << [id |-> "short", durationsSec |-> <<6, 15>>,
        aspectRatios |-> <<"9:16", "1:1", "16:9">>, captions |-> "burned"],
       [id |-> "square", durationsSec |-> <<6, 15>>,
        aspectRatios |-> <<"1:1">>, captions |-> "burned"],
       [id |-> "landscape", durationsSec |-> <<15, 30>>,
        aspectRatios |-> <<"16:9">>, captions |-> "sidecar"],
       [id |-> "stories", durationsSec |-> <<6, 15>>,
        aspectRatios |-> <<"9:16">>, captions |-> "burned"] >>

\* the customizations object handleGenerate passes to onGenerate
Customizations(ratios, durations, captions) ==
    [aspectRatios |-> ratios, durationsSec |-> durations, captions |-> captions]

NoCustomizations == Customizations(<<>>, <<>>, "none")

\* what a step of TemplateSelector did: which handler ran, whether it invoked
\* onGenerate, and with which template and customizations
TemplateStep(kind, called, template, customizations) ==
    [kind |-> kind, called |-> called, template |-> template,
     customizations |-> customizations]

NoTemplateStep == TemplateStep("none", FALSE, "none", NoCustomizations)

\* prev.includes(x) ? prev.filter(y => y !== x) : [...prev, x]
toggle(prev, x) ==
    LET Other(y) == y # x
    IN  IF \E i \in 1..Len(prev) : prev[i] = x
        THEN SelectSeq(prev, Other)
        ELSE Append(prev, x)

handleTemplateSelect(template) ==
    /\ selectedTemplate' = template.id
    /\ customAspectRatios' = template.aspectRatios
    /\ customDurations' = template.durationsSec
    /\ customCaptions' = template.captions
    /\ tsLast' = TemplateStep("select", FALSE, "none", NoCustomizations)

handleAspectRatioToggle(ratio) ==
    /\ customAspectRatios' = toggle(customAspectRatios, ratio)
    /\ tsLast' = TemplateStep("ratio", FALSE, "none", NoCustomizations)
    /\ UNCHANGED <<selectedTemplate, customDurations, customCaptions>>

handleDurationToggle(duration) ==
    /\ customDurations' = toggle(customDurations, duration)
    /\ tsLast' = TemplateStep("duration", FALSE, "none", NoCustomizations)
    /\ UNCHANGED <<selectedTemplate, customAspectRatios, customCaptions>>

\* the caption radio buttons: onChange={() => setCustomCaptions(style)}
setCustomCaptions(style) ==
    /\ customCaptions' = style
    /\ tsLast' = TemplateStep("captions", FALSE, "none", NoCustomizations)
    /\ UNCHANGED <<selectedTemplate, customAspectRatios, customDurations>>

generatesMutant(ratios, durations) == Len(ratios) # 0 \/ Len(durations) # 0

\* handleGenerate reaches onGenerate: neither of the two early returns is taken
generates(ratios, durations) == ~(Len(ratios) = 0) /\ ~(Len(durations) = 0)

\* handleGenerate, as a call of the function: the button that calls it is
\* disabled when either list is empty, the function checks again
handleGenerate ==
    /\ tsLast' = IF generates(customAspectRatios, customDurations)
                 THEN TemplateStep("generate", TRUE, selectedTemplate,
                                   Customizations(customAspectRatios, customDurations,
                                                  customCaptions))
                 ELSE TemplateStep("generate", FALSE, "none", NoCustomizations)
    /\ UNCHANGED <<selectedTemplate, customAspectRatios, customDurations, customCaptions>>

\* an edit request: selections holds, for each { startMs, endMs }, the id of
\* the scene it was made from
EditRequest(videoId, selections, templateId, customizations) ==
    [videoId |-> videoId, selections |-> selections, templateId |-> templateId,
     aspectRatios |-> customizations.aspectRatios,
     durationsSec |-> customizations.durationsSec,
     captions |-> customizations.captions]

NoEdit == EditRequest(0, <<>>, "none", NoCustomizations)

(***************************************************************************)
(* Timeline (src/components/Timeline.tsx)                                  *)
(*                                                                         *)
(* An analysis is [hasChapters, chapters, video_id]: hasChapters tells     *)
(* whether the answer has a chapters array, chapters is the sequence of    *)
(* the chapters' sentiment fields ("none" when a chapter has none), and    *)
(* video_id tells whether the answer has a video_id.  A Scene keeps id     *)
(* (the index i of `scene_${i}`) and sentiment.                            *)
(***************************************************************************)
Sentiment == {"positive", "negative", "neutral"}

DEFAULT_SCENES == 8

\* extractScenesFromAnalysis
extractScenesFromAnalysis(a) ==
    LET fromChapters ==
            IF ~a.hasChapters THEN <<>>
            ELSE [i \in 1..Len(a.chapters) |->
                     [id |-> i - 1,
                      sentiment |-> IF a.chapters[i] = "none" THEN "neutral"
                                    ELSE a.chapters[i]]]
    IN  IF fromChapters = <<>> /\ a.video_id
        THEN [i \in 1..DEFAULT_SCENES |-> [id |-> i - 1, sentiment |-> "neutral"]]
        ELSE fromChapters

\* Array.prototype.includes
includes(s, x) == \E i \in 1..Len(s) : s[i] = x

positiveScenesMutant(sceneList) ==
    LET NotNegative(sc) == sc.sentiment # "negative"
    IN  SelectSeq(sceneList, NotNegative)

\* sceneList.filter(s => s.sentiment === 'positive')
positiveScenes(sceneList) ==
    LET Positive(sc) == sc.sentiment = "positive"
    IN  SelectSeq(sceneList, Positive)

middleIndexMutant(n) == (n - 1) \div 2

\* Math.floor(sceneList.length / 2)
middleIndex(n) == n \div 2

autoSelectScenesMutant(sceneList) ==
    IF Len(sceneList) > 0 /\ positiveScenes(sceneList) # <<>>
    THEN <<positiveScenes(sceneList)[1].id>>
    ELSE <<>>

\* autoSelectScenes
autoSelectScenes(sceneList) ==
    IF Len(sceneList) > 0
    THEN LET first == <<sceneList[1].id>>
             withPositive ==
                 IF Len(positiveScenes(sceneList)) > 0
                 THEN Append(first, positiveScenes(sceneList)[1].id)
                 ELSE first
             middle == sceneList[middleIndex(Len(sceneList)) + 1].id
         IN  IF Len(sceneList) > 3 /\ ~includes(withPositive, middle)
             THEN Append(withPositive, middle)
             ELSE withPositive
    ELSE <<>>

\* loadVideoAnalysis, from the answer of loadAnalysis on: the analysis is
\* parsed into scenes and the auto-selection becomes the selection
loadVideoAnalysis ==
    /\ tlLoading
    /\ scenes' = extractScenesFromAnalysis(analysis)
    /\ selectedIds' = autoSelectScenes(extractScenesFromAnalysis(analysis))
    /\ tlLoading' = FALSE
    /\ tlEvent' = "loaded"
    /\ tlPending' = tlPending - 1
    /\ UNCHANGED <<analysis, tlError, tlVideoId, showTemplates, generating,
                   editRequests, editsSent, lastEdit, templateVars>>

\* loadVideoAnalysis when loadAnalysis throws (fetch rejects or answers non-OK)
loadVideoAnalysisFails ==
    /\ tlLoading
    /\ tlError' = "Failed to load analysis"
    /\ tlLoading' = FALSE
    /\ tlEvent' = "failed"
    /\ tlPending' = tlPending - 1
    /\ UNCHANGED <<analysis, scenes, selectedIds, tlVideoId, showTemplates, generating,
                   editRequests, editsSent, lastEdit, templateVars>>

\* the scene list with its buttons is rendered (Timeline.tsx:241-427)
ScenesShown == ~tlLoading /\ tlError = "null" /\ ~showTemplates

\* TemplateSelector is rendered (Timeline.tsx:214-239)
TemplateShown == ~tlLoading /\ tlError = "null" /\ showTemplates

\* a step of Timeline re-renders it: a TemplateSelector that stays rendered
\* keeps its state, one that is rendered anew starts from its useState
\* initial values
TemplateSelectorRenders(stays) ==
    /\ selectedTemplate' = IF stays THEN selectedTemplate ELSE defaultTemplates[1].id
    /\ customAspectRatios' =
           IF stays THEN customAspectRatios ELSE defaultTemplates[1].aspectRatios
    /\ customDurations' = IF stays THEN customDurations ELSE defaultTemplates[1].durationsSec
    /\ customCaptions' = IF stays THEN customCaptions ELSE defaultTemplates[1].captions
    /\ tsLast' = IF stays THEN tsLast ELSE NoTemplateStep

\* the videoId prop changes while Timeline stays mounted: the effect on
\* [videoId] calls loadVideoAnalysis, which sets loading and awaits
\* loadAnalysis(videoId)
videoIdChanges ==
    /\ tlVideoId < MaxLoads
    /\ tlVideoId' = tlVideoId + 1
    /\ tlLoading' = TRUE
    /\ tlPending' = tlPending + 1
    /\ tlEvent' = "loading"
    /\ TemplateSelectorRenders(FALSE)
    /\ UNCHANGED <<analysis, scenes, selectedIds, tlError, showTemplates, generating,
                   editRequests, editsSent, lastEdit>>

\* loadVideoAnalysis from the answer a of one of the pending loadAnalysis
\* calls on
analysisLoaded(a) ==
    /\ tlPending > 0
    /\ tlPending' = tlPending - 1
    /\ analysis' = a
    /\ scenes' = extractScenesFromAnalysis(a)
    /\ selectedIds' = autoSelectScenes(extractScenesFromAnalysis(a))
    /\ tlLoading' = FALSE
    /\ tlEvent' = "loaded"
    /\ TemplateSelectorRenders(TemplateShown)
    /\ UNCHANGED <<tlError, tlVideoId, showTemplates, generating, editRequests,
                   editsSent, lastEdit>>

\* loadVideoAnalysis when one of the pending loadAnalysis calls throws
analysisFailed ==
    /\ tlPending > 0
    /\ tlPending' = tlPending - 1
    /\ tlError' = "Failed to load analysis"
    /\ tlLoading' = FALSE
    /\ tlEvent' = "failed"
    /\ TemplateSelectorRenders(FALSE)
    /\ UNCHANGED <<analysis, scenes, selectedIds, tlVideoId, showTemplates, generating,
                   editRequests, editsSent, lastEdit>>

\* a click on the card of scene id
toggleScene(id) ==
    /\ ScenesShown
    /\ \E i \in 1..Len(scenes) : scenes[i].id = id
    /\ selectedIds' = toggle(selectedIds, id)
    /\ tlEvent' = "toggle"
    /\ UNCHANGED <<analysis, scenes, tlLoading, tlError, editVars, templateVars>>

\* Clear All: setSelectedIds([]), disabled while nothing is selected
clearAll ==
    /\ ScenesShown /\ Len(selectedIds) # 0
    /\ selectedIds' = <<>>
    /\ tlEvent' = "clearAll"
    /\ UNCHANGED <<analysis, scenes, tlLoading, tlError, editVars, templateVars>>

\* Select All: setSelectedIds(scenes.map(s => s.id))
selectAll ==
    /\ ScenesShown
    /\ selectedIds' = [i \in 1..Len(scenes) |-> scenes[i].id]
    /\ tlEvent' = "selectAll"
    /\ UNCHANGED <<analysis, scenes, tlLoading, tlError, editVars, templateVars>>

\* generateClips: the button is disabled while nothing is selected
generateClips ==
    /\ ScenesShown /\ Len(selectedIds) # 0
    /\ showTemplates' = TRUE
    /\ tlEvent' = "generateClips"
    /\ UNCHANGED <<analysis, scenes, selectedIds, tlLoading, tlError, tlVideoId, tlPending,
                   generating, editRequests, editsSent, lastEdit, templateVars>>

\* Back to Scene Selection: setShowTemplates(false)
backToScenes ==
    /\ TemplateShown
    /\ showTemplates' = FALSE
    /\ tlEvent' = "back"
    /\ TemplateSelectorRenders(FALSE)
    /\ UNCHANGED <<analysis, scenes, selectedIds, tlLoading, tlError, tlVideoId, tlPending,
                   generating, editRequests, editsSent, lastEdit>>

selectionsMutant(sceneList, ids) == ids

\* scenes.filter(s => selectedIds.includes(s.id)).map(...)
selections(sceneList, ids) ==
    LET Selected(sc) == includes(ids, sc.id)
        selectedScenes == SelectSeq(sceneList, Selected)
    IN  [i \in 1..Len(selectedScenes) |-> selectedScenes[i].id]

\* handleTemplateGenerate up to the await of fetch: the edit request is sent
handleTemplateGenerate(template, customizations) ==
    /\ editsSent < MaxEdits
    /\ generating' = TRUE
    /\ lastEdit' = EditRequest(tlVideoId, selections(scenes, selectedIds), template,
                               customizations)
    /\ editRequests' = editRequests (+) SetToBag({lastEdit'})
    /\ editsSent' = editsSent + 1
    /\ tlEvent' = "edit"
    /\ UNCHANGED <<analysis, scenes, selectedIds, tlLoading, tlError, tlVideoId, tlPending,
                   showTemplates>>

\* the Generate button of the TemplateSelector that Timeline renders:
\* handleGenerate, and handleTemplateGenerate when it invokes onGenerate
generateFromTemplate ==
    /\ TemplateShown
    /\ handleGenerate
    /\ IF tsLast'.called
       THEN handleTemplateGenerate(tsLast'.template, tsLast'.customizations)
       ELSE UNCHANGED <<timelineVars, editVars>>

\* handleTemplateGenerate from the await of fetch on: an alert that tells the
\* result, then finally { setGenerating(false) }
editAnswered(r) ==
    /\ BagIn(r, editRequests)
    /\ editRequests' = editRequests (-) SetToBag({r})
    /\ generating' = FALSE
    /\ tlEvent' = "editAnswered"
    /\ UNCHANGED <<analysis, scenes, selectedIds, tlLoading, tlError, tlVideoId, tlPending,
                   showTemplates, editsSent, lastEdit, templateVars>>

\* the chapter lists of at most n chapters
RECURSIVE ChapterLists(_)
ChapterLists(n) ==
    IF n = 0 THEN {<<>>}
    ELSE LET shorter == ChapterLists(n - 1)
         IN  shorter \cup {Append(c, s) : c \in {d \in shorter : Len(d) = n - 1},
                                          s \in Sentiment \cup {"none"}}

(***************************************************************************)
(* new URL(url), as validateUrl (Upload.tsx:82-89) and POST                *)
(* (route.ts:70-79) use it: whether the WHATWG parser accepts the string   *)
(* without a base.  A string is a sequence of tokens: "http" (the letters  *)
(* of a special scheme), "x" (any other letters), ":", "/" and " ".        *)
(***************************************************************************)
UrlTokens == {"http", "x", ":", "/", " "}

IsAlpha(t) == t \in {"http", "x"}

\* leading and trailing spaces are removed first
RECURSIVE TrimLeft(_)
TrimLeft(u) == IF u # <<>> /\ Head(u) = " " THEN TrimLeft(Tail(u)) ELSE u

RECURSIVE TrimRight(_)
TrimRight(u) ==
    IF u # <<>> /\ u[Len(u)] = " " THEN TrimRight(SubSeq(u, 1, Len(u) - 1)) ELSE u

Trim(u) == TrimRight(TrimLeft(u))

\* index of the first token of u equal to t, Len(u) + 1 when there is none
IndexOf(u, t) ==
    IF \E i \in 1..Len(u) : u[i] = t
    THEN CHOOSE i \in 1..Len(u) : u[i] = t /\ \A j \in 1..(i - 1) : u[j] # t
    ELSE Len(u) + 1

RECURSIVE SkipSlashes(_)
SkipSlashes(u) == IF u # <<>> /\ Head(u) = "/" THEN SkipSlashes(Tail(u)) ELSE u

\* host state and port state on the authority (the tokens before the first
\* "/"): no forbidden code point in the host, only digits in the port
AuthorityOk(auth, emptyHostOk) ==
    LET colon == IndexOf(auth, ":")
        host  == SubSeq(auth, 1, colon - 1)
        port  == SubSeq(auth, colon + 1, Len(auth))
    IN  /\ emptyHostOk \/ host # <<>>
        /\ \A i \in 1..Len(host) : IsAlpha(host[i])
        /\ port = <<>>

URLparsesMutant(url) == url # <<>>

\* TRUE when new URL(url) returns, FALSE when it throws
URLparses(url) ==
    LET u      == Trim(url)
        colon  == IndexOf(u, ":")
        scheme == SubSeq(u, 1, colon - 1)
        rest   == SubSeq(u, colon + 1, Len(u))
    IN  /\ colon <= Len(u)
        /\ scheme # <<>>
        /\ \A i \in 1..Len(scheme) : IsAlpha(scheme[i])
        /\ IF scheme = <<"http">>
           THEN LET after == SkipSlashes(rest)
                IN  AuthorityOk(SubSeq(after, 1, IndexOf(after, "/") - 1), FALSE)
           ELSE IF Len(rest) >= 2 /\ rest[1] = "/" /\ rest[2] = "/"
                THEN LET after == SubSeq(rest, 3, Len(rest))
                     IN  AuthorityOk(SubSeq(after, 1, IndexOf(after, "/") - 1), TRUE)
                ELSE TRUE

\* the strings a user types or a client posts: none, "http:x/", "http://x",
\* "x:", " x: ", and the malformed "x", "http:", "http://", "x /", ":x"
UrlSamples ==
    { <<>>,
      <<"http", ":", "x", "/">>, <<"http", ":", "/", "/", "x">>, <<"x", ":">>,
      <<" ", "x", ":", " ">>,
      <<"x">>, <<"http", ":">>, <<"http", ":", "/", "/">>, <<"x", " ", "/">>,
      <<":", "x">> }

(***************************************************************************)
(* /api/videos (src/unnamed/part_000: the route of the upload endpoint)    *)
(*                                                                         *)
(* A video record keeps status, progress, message and whether a timeline   *)
(* is attached.  A timer is [videoId, delay]: a setTimeout callback of     *)
(* simulateProcessing that has not run yet.                                *)
(***************************************************************************)
SIMULATION_DELAYS == {1000, 3000, 5000, 8000}

simulationStepMutant(delay) ==
    CASE delay = 1000 -> [status |-> "processing", progress |-> 25,
                          message |-> "Analyzing video content..."]
      [] delay = 3000 -> [status |-> "uploading", progress |-> 50,
                          message |-> "Extracting scenes and objects..."]
      [] delay = 5000 -> [status |-> "indexing", progress |-> 75,
                          message |-> "Creating searchable index..."]
      [] delay = 8000 -> [status |-> "completed", progress |-> 100,
                          message |-> "Analysis complete", timeline |-> TRUE]

\* the fields the setTimeout callback with that delay assigns in the record
simulationStep(delay) ==
    CASE delay = 1000 -> [status |-> "processing", progress |-> 25,
                          message |-> "Analyzing video content..."]
      [] delay = 3000 -> [status |-> "processing", progress |-> 50,
                          message |-> "Extracting scenes and objects..."]
      [] delay = 5000 -> [status |-> "indexing", progress |-> 75,
                          message |-> "Creating searchable index..."]
      [] delay = 8000 -> [status |-> "completed", progress |-> 100,
                          message |-> "Analysis complete", timeline |-> TRUE]

\* simulateProcessing(videoId): the four setTimeout calls
MapSetMutant(map, key, value) == [k \in DOMAIN map \cup {key} |-> value]

simulateProcessingMutant(videoId) ==
    timers' = timers \cup {[videoId |-> videoId, delay |-> d] :
                              d \in SIMULATION_DELAYS \ {8000}}

simulateProcessing(videoId) ==
    IF videoId \in DOMAIN videoStore'
    THEN timers' = timers \cup {[videoId |-> videoId, delay |-> d] : d \in SIMULATION_DELAYS}
    ELSE timers' = timers

\* Map.prototype.set
MapSet(map, key, value) ==
    [k \in DOMAIN map \cup {key} |-> IF k = key THEN value ELSE map[k]]

\* what the server did last: the answer's status code (0: a timer ran), the
\* videoId, the body's status or error, for a POST the form it read, and for
\* a status answer the body's progress and message
Answer(code, videoId, body) ==
    [code |-> code, videoId |-> videoId, body |-> body, file |-> FALSE, url |-> <<>>,
     progress |-> 0, message |-> "none"]

\* the answer to a POST of the form with that file and url
AnswerPOST(file, url, code, videoId, body) ==
    [code |-> code, videoId |-> videoId, body |-> body, file |-> file, url |-> url,
     progress |-> 0, message |-> "none"]

AnswerGETMutant(id, video) ==
    [code |-> 200, videoId |-> id, body |-> video.status, file |-> FALSE, url |-> <<>>,
     progress |-> 0, message |-> video.message]

\* the 200 answer of the status route for the record video
AnswerGET(id, video) ==
    [code |-> 200, videoId |-> id, body |-> video.status, file |-> FALSE, url |-> <<>>,
     progress |-> video.progress, message |-> video.message]

urlAcceptedMutant(url) == TRUE

\* try { new URL(url) } catch { 400 }
urlAccepted(url) == URLparses(url)

\* POST with a request body that cannot be read (formData() or
\* file.arrayBuffer() throws): the outer catch answers 500
POSTFails ==
    /\ srvEvent' = Answer(500, 0, "Upload failed")
    /\ UNCHANGED <<videoStore, timers, uuidCount>>

\* POST: file tells whether the form has a file, url is the form's url
\* (<<>> when it has none or an empty one)
POST(file, url) ==
    IF ~file /\ url = <<>>
    THEN /\ srvEvent' = AnswerPOST(file, url, 400, 0, "Either file or url is required")
         /\ UNCHANGED <<videoStore, timers, uuidCount>>
    ELSE /\ uuidCount < MaxUuids
         /\ uuidCount' = uuidCount + 1
         /\ LET videoId == uuidCount + 1
                videoRecord == [status |-> "uploading", progress |-> 0,
                                message |-> IF file THEN "Uploaded file"
                                            ELSE "Processing URL",
                                timeline |-> FALSE]
            IN  IF ~file /\ ~urlAccepted(url)
                THEN /\ srvEvent' = AnswerPOST(file, url, 400, 0, "Invalid URL provided")
                     /\ UNCHANGED <<videoStore, timers>>
                ELSE /\ videoStore' = MapSet(videoStore, videoId, videoRecord)
                     /\ simulateProcessing(videoId)
                     /\ srvEvent' = AnswerPOST(file, url, 201, videoId, "uploading")

\* GET /api/videos/{id}/status (src/app/api/videos/[id]/status/route.ts); the
\* id is a path segment, never empty
GET(id) ==
    /\ srvEvent' = IF id \in DOMAIN videoStore
                   THEN AnswerGET(id, videoStore[id])
                   ELSE Answer(404, id, "Video not found")
    /\ UNCHANGED <<videoStore, timers, uuidCount>>

\* the setTimeout callbacks of one video run in the order of their delays
TimerDue(t) ==
    /\ t \in timers
    /\ \A o \in timers : o.videoId = t.videoId => o.delay >= t.delay

\* one setTimeout callback of simulateProcessing runs
TimerFires(t) ==
    /\ TimerDue(t)
    /\ timers' = timers \ {t}
    /\ IF t.videoId \in DOMAIN videoStore
       THEN videoStore' = MapSet(videoStore, t.videoId,
                                 spread(videoStore[t.videoId], simulationStep(t.delay)))
       ELSE UNCHANGED videoStore
    /\ srvEvent' = Answer(0, t.videoId, "timer")
    /\ UNCHANGED uuidCount

(***************************************************************************)
(* The status pollers: StatusPoller (src/components/StatusPoller.tsx and   *)
(* src/unnamed/part_004, which differ in the endpoint's host only) and     *)
(* SimpleStatusPoller (src/components/SimpleStatusPoller.tsx).             *)
(*                                                                         *)
(* An effect is one run of the useEffect callback: it has its own          *)
(* pollStatus closure (over its videoId) and its own interval.  A request  *)
(* is [effect, videoId, sampled]: sampled is the status the endpoint held  *)
(* for the video when it handled the request.  The answer arrives later,   *)
(* in any order, as one of the Outcomes.  pRequests is a bag: an effect    *)
(* may have several equal requests in flight.                              *)
(***************************************************************************)
Pollers == {"StatusPoller", "SimpleStatusPoller"}

PollVideos == {1, 2}

\* the video the backend accepts in SpecSession
SessionVideos == {1}

\* "ok": 200 with the record's status; "nonokJson": a non-OK answer with a
\* JSON body {error}, as the status route gives for an unknown id (404) and
\* on failure (500); "nonokText": a non-OK answer whose body is not JSON;
\* "reject": fetch rejects
Outcomes == {"ok", "nonokJson", "nonokText", "reject"}

NoStatus == [id |-> 0, status |-> "null"]

\* if (!response.ok) throw: StatusPoller.tsx:34-37, part_004:28-30; absent
\* from SimpleStatusPoller.tsx:25-27
checksResponseOk(p) == p # "SimpleStatusPoller"

\* the terminal states of VideoStatus.status
TerminalStatus == {"completed", "error"}

isTerminalMutant(status) == status = "completed"

\* data.status === 'completed' || data.status === 'error'
isTerminal(status) == status = "completed" \/ status = "error"

\* the videoId prop of the mounted poller
videoIdProp == IF pEffect = 0 THEN 0 ELSE pClosure[pEffect]

\* whether the try block runs to its end (TRUE) or throws into the catch
\* (FALSE), and the data it passes to setStatus
runsTry(p, outcome) ==
    \/ outcome = "ok"
    \/ ~checksResponseOk(p) /\ outcome = "nonokJson"

\* await response.json(): the record of a 200 answer, the {error} body of a
\* non-OK one
responseData(r, outcome) ==
    IF outcome = "ok"
    THEN [id |-> r.videoId, status |-> r.sampled]
    ELSE [id |-> 0, status |-> "undefined"]

\* pollStatus / poll up to the await of fetch: one status request is issued
pollStatus(e, videoId) ==
    /\ pRequests' = pRequests (+) SetToBag({[effect |-> e, videoId |-> videoId,
                                             sampled |-> backend[videoId]]})
    /\ pIssued' = pIssued + 1

cleanupMutant(e) == pInterval

\* the cleanup the effect returns: clearInterval(interval) of effect e
cleanup(e) == pInterval \ {e}

\* the useEffect callback: poll immediately, then setInterval
useEffectRun(videoId) ==
    /\ pEffect' = pEffect + 1
    /\ pClosure' = Append(pClosure, videoId)
    /\ pollStatus(pEffect + 1, videoId)
    /\ pInterval' = cleanup(pEffect) \cup {pEffect + 1}
    /\ pLive' = IF pMounted THEN pLive \cup {pEffect + 1} ELSE {pEffect + 1}
    /\ pLast' = [kind |-> "effect", effect |-> pEffect + 1,
                 outcome |-> "none", status |-> "none", wasActive |-> FALSE,
                 live |-> TRUE]

\* the component is mounted with a videoId: useState initial values, then
\* the effect runs
Mount(videoId) ==
    /\ ~pMounted
    /\ pEffect < MaxEffects /\ pIssued < MaxPolls
    /\ pMounted' = TRUE
    /\ pStatus' = NoStatus
    /\ pLoading' = TRUE
    /\ useEffectRun(videoId)
    /\ UNCHANGED <<poller, backend, pDone>>

\* the videoId prop changes: the cleanup of the current effect clears its
\* interval, then the effect runs again
ChangeVideoId(videoId) ==
    /\ pMounted /\ videoId # videoIdProp
    /\ pEffect < MaxEffects /\ pIssued < MaxPolls
    /\ useEffectRun(videoId)
    /\ UNCHANGED <<poller, pMounted, pStatus, pLoading, backend, pDone>>

\* the component is unmounted: the cleanup clears the interval
Unmount ==
    /\ pMounted
    /\ pMounted' = FALSE
    /\ pInterval' = cleanup(pEffect)
    /\ pLive' = {}
    /\ pLast' = [kind |-> "unmount", effect |-> pEffect,
                 outcome |-> "none", status |-> "none", wasActive |-> pEffect \in pInterval,
                 live |-> FALSE]
    /\ UNCHANGED <<poller, pClosure, pStatus, pLoading, pEffect, pRequests, pIssued,
                   backend, pDone>>

\* the interval of effect e fires: its pollStatus issues the next request
IntervalTick(e) ==
    /\ e \in pInterval
    /\ pIssued < MaxPolls
    /\ pollStatus(e, pClosure[e])
    /\ pLast' = [kind |-> "tick", effect |-> e,
                 outcome |-> "none", status |-> "none", wasActive |-> TRUE,
                 live |-> e \in pLive]
    /\ UNCHANGED <<poller, pMounted, pClosure, pStatus, pLoading, pEffect, pLive,
                   pInterval, backend, pDone>>

\* pollStatus / poll from the await of fetch on, for request r answered
\* with outcome: setStatus changes what the mounted instance displays,
\* clearInterval clears the interval of r's own effect
pollStatusAnswer(r, outcome) ==
    /\ BagIn(r, pRequests)
    /\ pRequests' = pRequests (-) SetToBag({r})
    /\ LET try  == runsTry(poller, outcome)
           data == IF try THEN responseData(r, outcome)
                   ELSE [id |-> r.videoId, status |-> "error"]
           stop == ~try \/ isTerminal(data.status)
       IN  /\ pStatus' = IF r.effect \in pLive THEN data ELSE pStatus
           /\ pLoading' = IF r.effect \in pLive /\ checksResponseOk(poller)
                           THEN FALSE ELSE pLoading
           /\ pInterval' = IF stop THEN pInterval \ {r.effect} ELSE pInterval
           /\ pDone' = IF try /\ data.status \in TerminalStatus
                        THEN pDone \cup {r.effect} ELSE pDone
           /\ pLast' = [kind |-> "answer", effect |-> r.effect,
                        outcome |-> outcome, status |-> r.sampled,
                        wasActive |-> r.effect \in pInterval,
                        live |-> r.effect \in pLive]
    /\ UNCHANGED <<poller, pMounted, pClosure, pEffect, pLive, pIssued, backend>>

IntervalTickLiveMutant(e) == e \in pInterval /\ UNCHANGED pollerVars

\* IntervalTick for runs in which the interval fires for ever: bounded by the
\* requests in flight, not by the requests issued, which it does not count
IntervalTickLive(e) ==
    /\ e \in pInterval
    /\ BagCardinality(pRequests) < MaxInFlight
    /\ pRequests' = pRequests (+) SetToBag({[effect |-> e, videoId |-> pClosure[e],
                                             sampled |-> backend[pClosure[e]]]})
    /\ pLast' = [kind |-> "tick", effect |-> e,
                 outcome |-> "none", status |-> "none", wasActive |-> TRUE,
                 live |-> e \in pLive]
    /\ UNCHANGED <<poller, pMounted, pClosure, pStatus, pLoading, pEffect, pLive,
                   pInterval, pIssued, backend, pDone>>

\* the polled endpoint's record moves on: forward in the status order, or
\* into error
BackendAdvance(v) ==
    /\ backend[v] \in {"uploading", "processing", "indexing"}
    /\ \E next \in {"processing", "indexing", "completed", "error"} :
          /\ next = "error" \/ Rank(next) = Rank(backend[v]) + 1
          /\ backend' = [backend EXCEPT ![v] = next]
    /\ UNCHANGED <<poller, pMounted, pClosure, pStatus, pLoading, pEffect, pLive,
                   pInterval, pRequests, pIssued, pDone, pLast>>

(***************************************************************************)
(* The upload forms: Upload (src/components/Upload.tsx; src/unnamed/       *)
(* part_002 is the same component without the Layout wrapper) and          *)
(* SimpleUpload (src/components/SimpleUpload.tsx).                         *)
(*                                                                         *)
(* A file is [present, isVideo, size]: whether a File is held, whether its *)
(* type starts with 'video/', and its size in bytes.  dragActive only      *)
(* styles the drop zone and is left out.  An upload request is             *)
(* [fileSize]: what the submit closure holds of its file when the answer   *)
(* arrives.                                                                *)
(***************************************************************************)
Uploaders == {"Upload", "SimpleUpload"}

MB == 1024 * 1024

NoFile == [present |-> FALSE, isVideo |-> FALSE, size |-> 0]

\* the files a user picks or drops
Files ==
    [present : {TRUE}, isVideo : BOOLEAN,
     size : {50 * MB, 50 * MB + 1, 100 * MB, 100 * MB + 1}]

\* the files picked in SpecUpload, where a file goes on into requests and
\* the history: a video that gets the warning and a file that is no video
FewFiles ==
    { [present |-> TRUE, isVideo |-> TRUE, size |-> 50 * MB + 1],
      [present |-> TRUE, isVideo |-> FALSE, size |-> 50 * MB] }

\* the strings a user types into the url input
UrlInputs == { <<>>, <<"http", ":", "/", "/", "x">>, <<"x">>, <<"http", ":">> }

\* how an upload request ends: a 2xx answer carrying a videoId, an answer
\* that is not ok, fetch rejecting with a TypeError whose message has the
\* word fetch in it ('Failed to fetch') or has not ('Load failed')
UploadAnswers == {"ok", "nonok", "rejectFetch", "rejectOther"}

\* the message the catch block of submit shows
catchMessage(outcome) ==
    IF outcome = "nonok" THEN "Upload failed: statusText"
    ELSE IF uploader = "Upload" /\ outcome = "rejectFetch"
    THEN "Network connection failed. Please check your internet connection and try again."
    ELSE IF outcome = "rejectFetch" THEN "Failed to fetch" ELSE "Load failed"

Step(kind, detail) == [kind |-> kind, detail |-> detail, file |-> NoFile, videoId |-> 0]

\* a step of handleFileChange or handleDrop, with the file it was handed
FileStep(kind, f) == [kind |-> kind, detail |-> "none", file |-> f, videoId |-> 0]

\* a click on a row of VideoHistory, with the row's videoId and status
RowStep(video) ==
    [kind |-> "rowClick", detail |-> video.status, file |-> NoFile,
     videoId |-> video.videoId]

exceedsMBMutant(size, limit) == size >= limit * MB

\* fileSizeMB > limit, where fileSizeMB = size / 1024 / 1024: dividing by a
\* power of two is exact, so this is size > limit * 1024 * 1024
exceedsMB(size, limit) == size > limit * MB

\* React runs the effects of a committed render before it handles the next
\* update, so no handler's update is rendered with the effect on [videoId]
\* of the render before it still to run
EffectsFlushed == ~upEffectDue

\* the upload form is rendered: Upload.tsx:206-263, SimpleUpload.tsx:49
FormShown ==
    IF uploader = "Upload"
    THEN currentView # "history" /\ ~(currentView = "processing" /\ upVideoId # 0)
    ELSE upVideoId = 0

\* the processing view is rendered: Upload.tsx:218
ProcessingShown ==
    IF uploader = "Upload"
    THEN currentView = "processing" /\ upVideoId # 0
    ELSE upVideoId # 0

\* handleDrop (Upload only)
handleDrop(droppedFile) ==
    /\ EffectsFlushed
    /\ uploader = "Upload" /\ FormShown
    /\ IF droppedFile.isVideo
       THEN upFile' = droppedFile /\ upUrl' = <<>> /\ upError' = "null"
       ELSE upError' = "Please upload a video file" /\ UNCHANGED <<upFile, upUrl>>
    /\ upLast' = FileStep("drop", droppedFile)
    /\ UNCHANGED <<uploader, hvVideos, upVideoId, upLoading, currentView, upEffectDue, upRequests,
                   upIssued, history, nextVideoId, lastOp>>

\* handleFileChange; in SimpleUpload the input's onChange is setFile
handleFileChange(selectedFile) ==
    /\ EffectsFlushed
    /\ FormShown
    /\ IF uploader = "SimpleUpload"
       THEN upFile' = selectedFile /\ UNCHANGED <<upUrl, upError>>
       ELSE IF ~selectedFile.isVideo
       THEN upError' = "Please select a video file" /\ UNCHANGED <<upFile, upUrl>>
       ELSE IF exceedsMB(selectedFile.size, 100)
       THEN upError' = "File too large" /\ UNCHANGED <<upFile, upUrl>>
       ELSE /\ upFile' = selectedFile
            /\ upUrl' = <<>>
            /\ upError' = IF exceedsMB(selectedFile.size, 50)
                         THEN "Large file detected" ELSE "null"
    /\ upLast' = FileStep("fileChange", selectedFile)
    /\ UNCHANGED <<uploader, hvVideos, upVideoId, upLoading, currentView, upEffectDue, upRequests,
                   upIssued, history, nextVideoId, lastOp>>

\* handleUrlChange; in SimpleUpload the input's onChange is setUrl
handleUrlChange(value) ==
    /\ EffectsFlushed
    /\ FormShown
    /\ value # upUrl
    /\ upUrl' = value
    /\ IF uploader = "Upload" /\ value # <<>>
       THEN upFile' = NoFile /\ upError' = "null"
       ELSE UNCHANGED <<upFile, upError>>
    /\ upLast' = Step("urlChange", "none")
    /\ UNCHANGED <<uploader, hvVideos, upVideoId, upLoading, currentView, upEffectDue, upRequests,
                   upIssued, history, nextVideoId, lastOp>>

validateUrlMutant(u) == TRUE

\* validateUrl: new URL(url) in a try / catch
validateUrl(u) == URLparses(u)

\* the submit button is enabled: disabled={loading || (!file && !url)}
SubmitEnabled == FormShown /\ ~upLoading /\ (upFile.present \/ upUrl # <<>>)

\* submit up to the await of fetch: the checks, then the upload request
submit ==
    /\ EffectsFlushed
    /\ SubmitEnabled
    /\ IF ~upFile.present /\ upUrl = <<>>
       THEN /\ upError' = IF uploader = "Upload"
                           THEN "Please select a file or enter a URL"
                           ELSE "Please provide a file or URL"
            /\ upLast' = Step("submit", "noInput")
            /\ UNCHANGED <<upLoading, upRequests, upIssued>>
       ELSE IF uploader = "Upload" /\ upUrl # <<>> /\ ~validateUrl(upUrl)
       THEN /\ upError' = "Please enter a valid URL"
            /\ upLast' = Step("submit", "invalidUrl")
            /\ UNCHANGED <<upLoading, upRequests, upIssued>>
       ELSE /\ upIssued < MaxUploads
            /\ upLoading' = TRUE
            /\ upError' = "null"
            /\ upRequests' = upRequests (+) SetToBag({
                   [fileSize |-> IF upFile.present THEN Some(upFile.size) ELSE Undefined]})
            /\ upIssued' = upIssued + 1
            /\ upLast' = Step("submit", "request")
    /\ UNCHANGED <<uploader, hvVideos, upFile, upUrl, upVideoId, currentView, upEffectDue,
                   history, nextVideoId, lastOp>>

finallyLoadingMutant == upLoading

\* finally { setLoading(false) }
finallyLoading == FALSE

\* submit from the await of fetch on, for request r answered with outcome
submitAnswer(r, outcome) ==
    /\ EffectsFlushed
    /\ BagIn(r, upRequests)
    /\ upRequests' = upRequests (-) SetToBag({r})
    /\ IF outcome = "ok"
       THEN /\ upVideoId' = nextVideoId
            /\ nextVideoId' = nextVideoId + 1
            /\ IF uploader = "Upload"
               THEN /\ history' = save(history, createStoredVideo(nextVideoId, r.fileSize))
                    /\ currentView' = "processing"
                    /\ upEffectDue' = TRUE
                    /\ hvVideos' = <<>>
               ELSE UNCHANGED <<history, currentView, upEffectDue, hvVideos>>
            /\ UNCHANGED upError
       ELSE /\ upError' = catchMessage(outcome)
            /\ UNCHANGED <<upVideoId, nextVideoId, history, currentView, upEffectDue,
                           hvVideos>>
    /\ upLoading' = finallyLoading
    /\ upLast' = Step("answer", outcome)
    /\ UNCHANGED <<uploader, upFile, upUrl, upIssued, lastOp>>

\* the useEffect on [videoId]: the stored video goes to status processing
videoIdEffect ==
    /\ upEffectDue
    /\ upEffectDue' = FALSE
    /\ IF upVideoId # 0 /\ HasVideo(history, upVideoId)
       THEN history' = save(history,
                            spread(get(history, upVideoId), [status |-> "processing"]))
       ELSE UNCHANGED history
    /\ upLast' = Step("effect", "none")
    /\ UNCHANGED <<uploader, hvVideos, upFile, upUrl, upVideoId, upLoading, upError, currentView,
                   upRequests, upIssued, nextVideoId, lastOp>>

\* reset: Upload New in the processing view, handleUploadNew in the history
\* view, Upload Another Video in SimpleUpload (which leaves loading alone)
reset ==
    /\ EffectsFlushed
    /\ ProcessingShown \/ (uploader = "Upload" /\ currentView = "history")
    /\ upFile' = NoFile
    /\ upUrl' = <<>>
    /\ upVideoId' = 0
    /\ upError' = "null"
    /\ IF uploader = "Upload"
       THEN upLoading' = FALSE /\ currentView' = "upload"
       ELSE UNCHANGED <<upLoading, currentView>>
    /\ upEffectDue' = FALSE
    /\ hvVideos' = <<>>
    /\ upLast' = Step("reset", "none")
    /\ UNCHANGED <<uploader, upRequests, upIssued, history, nextVideoId, lastOp>>

\* View History: setCurrentView('history') (Upload.tsx:236, 292); VideoHistory
\* mounts and its effect calls loadVideos
viewHistory ==
    /\ EffectsFlushed
    /\ uploader = "Upload" /\ currentView # "history"
    /\ currentView' = "history"
    /\ hvVideos' = getAll(history)
    /\ upLast' = Step("viewHistory", "none")
    /\ UNCHANGED <<uploader, upFile, upUrl, upVideoId, upLoading, upError, upEffectDue,
                   upRequests, upIssued, history, nextVideoId, lastOp>>

\* VideoHistory.handleDelete of a row of the list, confirmed; then loadVideos
handleDelete(id) ==
    /\ EffectsFlushed
    /\ uploader = "Upload" /\ currentView = "history"
    /\ HasVideo(hvVideos, id)
    /\ history' = delete(history, id)
    /\ hvVideos' = getAll(history')
    /\ upLast' = Step("delete", "none")
    /\ UNCHANGED <<uploader, upFile, upUrl, upVideoId, upLoading, upError, currentView,
                   upEffectDue, upRequests, upIssued, nextVideoId, lastOp>>

\* VideoHistory.loadVideos, called by its 5 s interval
loadVideos ==
    /\ EffectsFlushed
    /\ uploader = "Upload" /\ currentView = "history"
    /\ hvVideos' = getAll(history)
    /\ upLast' = Step("loadVideos", "none")
    /\ UNCHANGED <<uploader, upFile, upUrl, upVideoId, upLoading, upError, currentView,
                   upEffectDue, upRequests, upIssued, history, nextVideoId, lastOp>>

\* a click on row i of the list: onSelectVideo, i.e. handleSelectVideo, is
\* called when the row's status is completed, and nothing happens otherwise;
\* the effect on [videoId] is due when videoId changed
selectableMutant(video) == video.status # "error"

\* VideoHistory.tsx:133, the condition of the row's onClick
selectable(video) == video.status = "completed"

rowClick(i) ==
    /\ EffectsFlushed
    /\ uploader = "Upload" /\ currentView = "history"
    /\ i \in 1..Len(hvVideos)
    /\ IF selectable(hvVideos[i])
       THEN /\ upVideoId' = hvVideos[i].videoId
            /\ currentView' = "processing"
            /\ upEffectDue' = (upEffectDue \/ hvVideos[i].videoId # upVideoId)
            /\ hvVideos' = <<>>
       ELSE UNCHANGED <<upVideoId, currentView, upEffectDue, hvVideos>>
    /\ upLast' = RowStep(hvVideos[i])
    /\ UNCHANGED <<uploader, upFile, upUrl, upLoading, upError, upRequests, upIssued,
                   history, nextVideoId, lastOp>>

(***************************************************************************)
(* Initial states.  Every specification starts the subsystems it does not  *)
(* exercise in their state after construction.                             *)
(***************************************************************************)
NoStep == [kind |-> "none", effect |-> 0, outcome |-> "none",
           status |-> "none", wasActive |-> FALSE, live |-> FALSE]

NoOp == [op |-> "none", videoId |-> 0, isNew |-> FALSE, wasFull |-> FALSE,
         video |-> NoVideo]

NoAnalysis == [hasChapters |-> FALSE, chapters |-> <<>>, video_id |-> FALSE]

\* the answers loadAnalysis may give, with at most MaxScenes chapters
Analyses ==
    {a \in [hasChapters : BOOLEAN, chapters : ChapterLists(MaxScenes),
            video_id : BOOLEAN] :
        ~a.hasChapters => a.chapters = <<>>}

\* an empty history; Timeline as useState leaves it, loadAnalysis pending
InitStorage ==
    /\ history = <<>>
    /\ nextVideoId = 1
    /\ lastOp = NoOp
    /\ analysis = NoAnalysis
    /\ scenes = <<>>
    /\ selectedIds = <<>>
    /\ tlLoading = TRUE
    /\ tlError = "null"
    /\ tlEvent = "mounted"
    /\ videoStore = <<>>
    /\ timers = {}
    /\ uuidCount = 0
    /\ srvEvent = Answer(0, 0, "none")
    /\ poller = "StatusPoller"
    /\ pMounted = FALSE
    /\ pClosure = <<>>
    /\ pStatus = NoStatus
    /\ pLoading = TRUE
    /\ pEffect = 0
    /\ pLive = {}
    /\ pInterval = {}
    /\ pRequests = EmptyBag
    /\ pIssued = 0
    /\ backend = [v \in PollVideos |-> "uploading"]
    /\ pDone = {}
    /\ pLast = NoStep
    /\ uploader = "Upload"
    /\ upFile = NoFile
    /\ upUrl = <<>>
    /\ upVideoId = 0
    /\ upLoading = FALSE
    /\ upError = "null"
    /\ currentView = "upload"
    /\ upEffectDue = FALSE
    /\ upRequests = EmptyBag
    /\ upIssued = 0
    /\ upLast = Step("none", "none")
    /\ hvVideos = <<>>
    /\ tlVideoId = 1
    /\ tlPending = 1
    /\ showTemplates = FALSE
    /\ generating = FALSE
    /\ editRequests = EmptyBag
    /\ editsSent = 0
    /\ lastEdit = NoEdit
    /\ selectedTemplate = defaultTemplates[1].id
    /\ customAspectRatios = defaultTemplates[1].aspectRatios
    /\ customDurations = defaultTemplates[1].durationsSec
    /\ customCaptions = defaultTemplates[1].captions
    /\ tsLast = NoTemplateStep

InitScenes ==
    /\ history = <<>>
    /\ nextVideoId = 1
    /\ lastOp = NoOp
    /\ analysis \in Analyses
    /\ scenes = <<>>
    /\ selectedIds = <<>>
    /\ tlLoading = TRUE
    /\ tlError = "null"
    /\ tlEvent = "mounted"
    /\ videoStore = <<>>
    /\ timers = {}
    /\ uuidCount = 0
    /\ srvEvent = Answer(0, 0, "none")
    /\ poller = "StatusPoller"
    /\ pMounted = FALSE
    /\ pClosure = <<>>
    /\ pStatus = NoStatus
    /\ pLoading = TRUE
    /\ pEffect = 0
    /\ pLive = {}
    /\ pInterval = {}
    /\ pRequests = EmptyBag
    /\ pIssued = 0
    /\ backend = [v \in PollVideos |-> "uploading"]
    /\ pDone = {}
    /\ pLast = NoStep
    /\ uploader = "Upload"
    /\ upFile = NoFile
    /\ upUrl = <<>>
    /\ upVideoId = 0
    /\ upLoading = FALSE
    /\ upError = "null"
    /\ currentView = "upload"
    /\ upEffectDue = FALSE
    /\ upRequests = EmptyBag
    /\ upIssued = 0
    /\ upLast = Step("none", "none")
    /\ hvVideos = <<>>
    /\ tlVideoId = 1
    /\ tlPending = 1
    /\ showTemplates = FALSE
    /\ generating = FALSE
    /\ editRequests = EmptyBag
    /\ editsSent = 0
    /\ lastEdit = NoEdit
    /\ selectedTemplate = defaultTemplates[1].id
    /\ customAspectRatios = defaultTemplates[1].aspectRatios
    /\ customDurations = defaultTemplates[1].durationsSec
    /\ customCaptions = defaultTemplates[1].captions
    /\ tsLast = NoTemplateStep

\* the server just started: an empty videoStore
InitServer ==
    /\ history = <<>>
    /\ nextVideoId = 1
    /\ lastOp = NoOp
    /\ analysis = NoAnalysis
    /\ scenes = <<>>
    /\ selectedIds = <<>>
    /\ tlLoading = TRUE
    /\ tlError = "null"
    /\ tlEvent = "mounted"
    /\ videoStore = <<>>
    /\ timers = {}
    /\ uuidCount = 0
    /\ srvEvent = Answer(0, 0, "none")
    /\ poller = "StatusPoller"
    /\ pMounted = FALSE
    /\ pClosure = <<>>
    /\ pStatus = NoStatus
    /\ pLoading = TRUE
    /\ pEffect = 0
    /\ pLive = {}
    /\ pInterval = {}
    /\ pRequests = EmptyBag
    /\ pIssued = 0
    /\ backend = [v \in PollVideos |-> "uploading"]
    /\ pDone = {}
    /\ pLast = NoStep
    /\ uploader = "Upload"
    /\ upFile = NoFile
    /\ upUrl = <<>>
    /\ upVideoId = 0
    /\ upLoading = FALSE
    /\ upError = "null"
    /\ currentView = "upload"
    /\ upEffectDue = FALSE
    /\ upRequests = EmptyBag
    /\ upIssued = 0
    /\ upLast = Step("none", "none")
    /\ hvVideos = <<>>
    /\ tlVideoId = 1
    /\ tlPending = 1
    /\ showTemplates = FALSE
    /\ generating = FALSE
    /\ editRequests = EmptyBag
    /\ editsSent = 0
    /\ lastEdit = NoEdit
    /\ selectedTemplate = defaultTemplates[1].id
    /\ customAspectRatios = defaultTemplates[1].aspectRatios
    /\ customDurations = defaultTemplates[1].durationsSec
    /\ customCaptions = defaultTemplates[1].captions
    /\ tsLast = NoTemplateStep

\* no poller mounted yet; the videos were just uploaded
InitPoller ==
    /\ history = <<>>
    /\ nextVideoId = 1
    /\ lastOp = NoOp
    /\ analysis = NoAnalysis
    /\ scenes = <<>>
    /\ selectedIds = <<>>
    /\ tlLoading = TRUE
    /\ tlError = "null"
    /\ tlEvent = "mounted"
    /\ videoStore = <<>>
    /\ timers = {}
    /\ uuidCount = 0
    /\ srvEvent = Answer(0, 0, "none")
    /\ poller \in Pollers
    /\ pMounted = FALSE
    /\ pClosure = <<>>
    /\ pStatus = NoStatus
    /\ pLoading = TRUE
    /\ pEffect = 0
    /\ pLive = {}
    /\ pInterval = {}
    /\ pRequests = EmptyBag
    /\ pIssued = 0
    /\ backend = [v \in PollVideos |-> "uploading"]
    /\ pDone = {}
    /\ pLast = NoStep
    /\ uploader = "Upload"
    /\ upFile = NoFile
    /\ upUrl = <<>>
    /\ upVideoId = 0
    /\ upLoading = FALSE
    /\ upError = "null"
    /\ currentView = "upload"
    /\ upEffectDue = FALSE
    /\ upRequests = EmptyBag
    /\ upIssued = 0
    /\ upLast = Step("none", "none")
    /\ hvVideos = <<>>
    /\ tlVideoId = 1
    /\ tlPending = 1
    /\ showTemplates = FALSE
    /\ generating = FALSE
    /\ editRequests = EmptyBag
    /\ editsSent = 0
    /\ lastEdit = NoEdit
    /\ selectedTemplate = defaultTemplates[1].id
    /\ customAspectRatios = defaultTemplates[1].aspectRatios
    /\ customDurations = defaultTemplates[1].durationsSec
    /\ customCaptions = defaultTemplates[1].captions
    /\ tsLast = NoTemplateStep

\* what a page load may find in localStorage: nothing, or a video that an
\* earlier session saved through videoStorage with status completed
PersistedHistories ==
    { <<>>,
      save(<<>>, spread(createStoredVideo(1, Undefined), [status |-> "completed"])) }

\* a form just mounted: the useState initial values, the persisted history
InitUpload ==
    /\ history \in PersistedHistories
    /\ nextVideoId = Len(history) + 1
    /\ lastOp = NoOp
    /\ analysis = NoAnalysis
    /\ scenes = <<>>
    /\ selectedIds = <<>>
    /\ tlLoading = TRUE
    /\ tlError = "null"
    /\ tlEvent = "mounted"
    /\ videoStore = <<>>
    /\ timers = {}
    /\ uuidCount = 0
    /\ srvEvent = Answer(0, 0, "none")
    /\ poller = "StatusPoller"
    /\ pMounted = FALSE
    /\ pClosure = <<>>
    /\ pStatus = NoStatus
    /\ pLoading = TRUE
    /\ pEffect = 0
    /\ pLive = {}
    /\ pInterval = {}
    /\ pRequests = EmptyBag
    /\ pIssued = 0
    /\ backend = [v \in PollVideos |-> "uploading"]
    /\ pDone = {}
    /\ pLast = NoStep
    /\ uploader \in Uploaders
    /\ upFile = NoFile
    /\ upUrl = <<>>
    /\ upVideoId = 0
    /\ upLoading = FALSE
    /\ upError = "null"
    /\ currentView = "upload"
    /\ upEffectDue = FALSE
    /\ upRequests = EmptyBag
    /\ upIssued = 0
    /\ upLast = Step("none", "none")
    /\ hvVideos = <<>>
    /\ tlVideoId = 1
    /\ tlPending = 1
    /\ showTemplates = FALSE
    /\ generating = FALSE
    /\ editRequests = EmptyBag
    /\ editsSent = 0
    /\ lastEdit = NoEdit
    /\ selectedTemplate = defaultTemplates[1].id
    /\ customAspectRatios = defaultTemplates[1].aspectRatios
    /\ customDurations = defaultTemplates[1].durationsSec
    /\ customCaptions = defaultTemplates[1].captions
    /\ tsLast = NoTemplateStep

\* Upload just mounted on a first visit: nothing persisted, nothing uploaded
InitSession ==
    /\ history = <<>>
    /\ nextVideoId = 1
    /\ lastOp = NoOp
    /\ analysis = NoAnalysis
    /\ scenes = <<>>
    /\ selectedIds = <<>>
    /\ tlLoading = TRUE
    /\ tlError = "null"
    /\ tlEvent = "mounted"
    /\ videoStore = <<>>
    /\ timers = {}
    /\ uuidCount = 0
    /\ srvEvent = Answer(0, 0, "none")
    /\ poller = "StatusPoller"
    /\ pMounted = FALSE
    /\ pClosure = <<>>
    /\ pStatus = NoStatus
    /\ pLoading = TRUE
    /\ pEffect = 0
    /\ pLive = {}
    /\ pInterval = {}
    /\ pRequests = EmptyBag
    /\ pIssued = 0
    /\ backend = [v \in SessionVideos |-> "uploading"]
    /\ pDone = {}
    /\ pLast = NoStep
    /\ uploader = "Upload"
    /\ upFile = NoFile
    /\ upUrl = <<>>
    /\ upVideoId = 0
    /\ upLoading = FALSE
    /\ upError = "null"
    /\ currentView = "upload"
    /\ upEffectDue = FALSE
    /\ upRequests = EmptyBag
    /\ upIssued = 0
    /\ upLast = Step("none", "none")
    /\ hvVideos = <<>>
    /\ tlVideoId = 1
    /\ tlPending = 1
    /\ showTemplates = FALSE
    /\ generating = FALSE
    /\ editRequests = EmptyBag
    /\ editsSent = 0
    /\ lastEdit = NoEdit
    /\ selectedTemplate = defaultTemplates[1].id
    /\ customAspectRatios = defaultTemplates[1].aspectRatios
    /\ customDurations = defaultTemplates[1].durationsSec
    /\ customCaptions = defaultTemplates[1].captions
    /\ tsLast = NoTemplateStep

(***************************************************************************)
(* Specifications.                                                         *)
(***************************************************************************)
NextStorage ==
    \/ \E fileSize \in FileSizes :
          /\ (fileSize # Undefined => nextVideoId <= MaxTargetId)
          /\ StorageSaveNew(fileSize)
          /\ UNCHANGED <<sceneVars, serverVars, pollerVars, uploadVars>>
    \/ \E videoId \in 1..MaxTargetId, status \in {"processing", "completed"} :
          StorageSaveExisting(videoId, status) /\ UNCHANGED <<sceneVars, serverVars, pollerVars, uploadVars>>
    \/ \E videoId \in 1..MaxTargetId, fileSize \in FileSizes :
          StorageSaveAgain(videoId, fileSize) /\ UNCHANGED <<sceneVars, serverVars, pollerVars, uploadVars>>
    \/ \E videoId \in 1..MaxTargetId :
          StorageDelete(videoId) /\ UNCHANGED <<sceneVars, serverVars, pollerVars, uploadVars>>
    \/ StorageClear /\ UNCHANGED <<sceneVars, serverVars, pollerVars, uploadVars>>

SpecStorage == InitStorage /\ [][NextStorage]_vars


\* SpecScenes: Timeline loads any analysis of at most MaxScenes chapters
NextScenes ==
    \/ loadVideoAnalysis /\ UNCHANGED <<storageVars, serverVars, pollerVars, uploadVars>>
    \/ loadVideoAnalysisFails /\ UNCHANGED <<storageVars, serverVars, pollerVars, uploadVars>>

SpecScenes == InitScenes /\ [][NextScenes]_vars

\* the answers loadAnalysis gives in SpecEdits: analyses of at most
\* MaxEditScenes chapters, positive or neutral, or without chapters
EditAnalyses ==
    {a \in [hasChapters : BOOLEAN, chapters : ChapterLists(MaxEditScenes),
            video_id : {FALSE}] :
        /\ ~a.hasChapters => a.chapters = <<>>
        /\ a.hasChapters => a.chapters # <<>>
        /\ \A i \in 1..Len(a.chapters) : a.chapters[i] \in {"positive", "neutral"}}

\* SpecEdits: a mounted Timeline whose videoId prop may change, with the
\* TemplateSelector it renders: the user selects scenes, opens the templates,
\* adjusts them and generates, while analyses and edit answers arrive
EditsOnly == UNCHANGED <<storageVars, serverVars, pollerVars, uploadVars>>

NextEdits ==
    \/ videoIdChanges /\ EditsOnly
    \/ \E a \in EditAnalyses : analysisLoaded(a) /\ EditsOnly
    \/ analysisFailed /\ EditsOnly
    \/ \E id \in 0..(MaxEditScenes - 1) : toggleScene(id) /\ EditsOnly
    \/ clearAll /\ EditsOnly
    \/ selectAll /\ EditsOnly
    \/ generateClips /\ EditsOnly
    \/ backToScenes /\ EditsOnly
    \/ /\ TemplateShown
       /\ handleTemplateSelect(defaultTemplates[2])
       /\ UNCHANGED <<timelineVars, editVars>> /\ EditsOnly
    \/ /\ TemplateShown
       /\ handleAspectRatioToggle("1:1")
       /\ UNCHANGED <<timelineVars, editVars>> /\ EditsOnly
    \/ /\ TemplateShown
       /\ handleDurationToggle(6)
       /\ UNCHANGED <<timelineVars, editVars>> /\ EditsOnly
    \/ generateFromTemplate /\ EditsOnly
    \/ \E r \in BagToSet(editRequests) : editAnswered(r) /\ EditsOnly

SpecEdits == InitStorage /\ [][NextEdits]_vars

\* SpecTemplates: a user at the TemplateSelector picking templates, toggling
\* aspect ratios and durations, choosing captions and asking to generate
TemplatesOnly ==
    UNCHANGED <<storageVars, serverVars, pollerVars, uploadVars, timelineVars, editVars>>

NextTemplates ==
    \/ \E t \in 1..Len(defaultTemplates) :
          handleTemplateSelect(defaultTemplates[t]) /\ TemplatesOnly
    \/ \E ratio \in AspectRatio : handleAspectRatioToggle(ratio) /\ TemplatesOnly
    \/ \E duration \in DurationChoices : handleDurationToggle(duration) /\ TemplatesOnly
    \/ \E style \in CaptionStyle : setCustomCaptions(style) /\ TemplatesOnly
    \/ handleGenerate /\ TemplatesOnly

SpecTemplates == InitStorage /\ [][NextTemplates]_vars

\* SpecServer: any sequence of uploads and simulated-processing timer steps
NextServer ==
    \/ \E file \in BOOLEAN, url \in UrlSamples :
          POST(file, url) /\ UNCHANGED <<storageVars, sceneVars, pollerVars, uploadVars>>
    \/ POSTFails /\ UNCHANGED <<storageVars, sceneVars, pollerVars, uploadVars>>
    \/ \E id \in 1..MaxUuids :
          GET(id) /\ UNCHANGED <<storageVars, sceneVars, pollerVars, uploadVars>>
    \/ \E t \in timers : TimerFires(t) /\ UNCHANGED <<storageVars, sceneVars, pollerVars, uploadVars>>

SpecServer == InitServer /\ [][NextServer]_vars

\* a step of the server leaves the other subsystems alone
ServerOnly == UNCHANGED <<storageVars, sceneVars, pollerVars, uploadVars>>

\* SpecServerLive: the server process keeps running, so every setTimeout
\* callback that is due runs
SpecServerLive ==
    /\ InitServer /\ [][NextServer]_vars
    /\ WF_vars(\E t \in timers : TimerFires(t) /\ ServerOnly)

\* SpecPoller: one poller component, mounted, re-targeted and unmounted,
\* against an endpoint whose records move on while answers are in flight
NextPoller ==
    \/ \E v \in PollVideos : Mount(v) /\ UNCHANGED <<storageVars, sceneVars, serverVars, uploadVars>>
    \/ \E v \in PollVideos :
          ChangeVideoId(v) /\ UNCHANGED <<storageVars, sceneVars, serverVars, uploadVars>>
    \/ Unmount /\ UNCHANGED <<storageVars, sceneVars, serverVars, uploadVars>>
    \/ \E e \in pInterval :
          IntervalTick(e) /\ UNCHANGED <<storageVars, sceneVars, serverVars, uploadVars>>
    \/ \E r \in BagToSet(pRequests), outcome \in Outcomes :
          pollStatusAnswer(r, outcome) /\ UNCHANGED <<storageVars, sceneVars, serverVars, uploadVars>>
    \/ \E v \in PollVideos :
          BackendAdvance(v) /\ UNCHANGED <<storageVars, sceneVars, serverVars, uploadVars>>

SpecPoller == InitPoller /\ [][NextPoller]_vars

\* SpecPollerLive: a poller that is mounted once and stays mounted, polling
\* for ever unless it stops itself
NextPollerLive ==
    \/ \E v \in PollVideos : Mount(v) /\ UNCHANGED <<storageVars, sceneVars, serverVars, uploadVars>>
    \/ \E e \in pInterval :
          IntervalTickLive(e) /\ UNCHANGED <<storageVars, sceneVars, serverVars, uploadVars>>
    \/ \E r \in BagToSet(pRequests), outcome \in Outcomes :
          pollStatusAnswer(r, outcome) /\ UNCHANGED <<storageVars, sceneVars, serverVars, uploadVars>>
    \/ pMounted /\ BackendAdvance(videoIdProp)
          /\ UNCHANGED <<storageVars, sceneVars, serverVars, uploadVars>>

\* a step of the poller leaves the other subsystems alone
PollerOnly == UNCHANGED <<storageVars, sceneVars, serverVars, uploadVars>>

\* the status requests a poller can have in flight
StatusRequests ==
    [effect : 1..(MaxEffects + 1), videoId : PollVideos, sampled : Status]

\* the interval timer fires as long as it is set; every status request is
\* answered; the polled record reaches completed or error; and the
\* endpoint's 200 answers, possible again and again, do come
FairPoller ==
    /\ \A e \in 1..(MaxEffects + 1) :
          WF_vars(IntervalTickLive(e) /\ PollerOnly)
    /\ \A r \in StatusRequests :
          WF_vars((\E outcome \in Outcomes : pollStatusAnswer(r, outcome)) /\ PollerOnly)
    /\ SF_vars((\E r \in StatusRequests : pollStatusAnswer(r, "ok")) /\ PollerOnly)
    /\ WF_vars(pMounted /\ BackendAdvance(videoIdProp) /\ PollerOnly)

SpecPollerLive == InitPoller /\ [][NextPollerLive]_vars /\ FairPoller

\* SpecUpload: a user at one of the upload forms, with upload answers
\* arriving at any time
NextUpload ==
    \/ \E f \in FewFiles : handleDrop(f) /\ UNCHANGED <<sceneVars, serverVars, pollerVars>>
    \/ \E f \in FewFiles :
          handleFileChange(f) /\ UNCHANGED <<sceneVars, serverVars, pollerVars>>
    \/ \E u \in UrlInputs :
          handleUrlChange(u) /\ UNCHANGED <<sceneVars, serverVars, pollerVars>>
    \/ submit /\ UNCHANGED <<sceneVars, serverVars, pollerVars>>
    \/ \E r \in BagToSet(upRequests), outcome \in UploadAnswers :
          submitAnswer(r, outcome) /\ UNCHANGED <<sceneVars, serverVars, pollerVars>>
    \/ videoIdEffect /\ UNCHANGED <<sceneVars, serverVars, pollerVars>>
    \/ reset /\ UNCHANGED <<sceneVars, serverVars, pollerVars>>
    \/ viewHistory /\ UNCHANGED <<sceneVars, serverVars, pollerVars>>
    \/ \E id \in 1..(MaxUploads + 1) :
          handleDelete(id) /\ UNCHANGED <<sceneVars, serverVars, pollerVars>>
    \/ loadVideos /\ UNCHANGED <<sceneVars, serverVars, pollerVars>>
    \/ \E i \in 1..(MaxUploads + 1) :
          rowClick(i) /\ UNCHANGED <<sceneVars, serverVars, pollerVars>>

SpecUpload == InitUpload /\ [][NextUpload]_vars

\* SpecUploadFiles: a user at the form of Upload or SimpleUpload picking and
\* dropping files of every size around the two thresholds, and typing urls
NextUploadFiles ==
    \/ \E f \in Files : handleDrop(f) /\ UNCHANGED <<sceneVars, serverVars, pollerVars>>
    \/ \E f \in Files :
          handleFileChange(f) /\ UNCHANGED <<sceneVars, serverVars, pollerVars>>
    \/ \E u \in UrlInputs :
          handleUrlChange(u) /\ UNCHANGED <<sceneVars, serverVars, pollerVars>>
    \/ submit /\ UNCHANGED <<sceneVars, serverVars, pollerVars>>
    \/ \E r \in BagToSet(upRequests), outcome \in UploadAnswers :
          submitAnswer(r, outcome) /\ UNCHANGED <<sceneVars, serverVars, pollerVars>>
    \/ videoIdEffect /\ UNCHANGED <<sceneVars, serverVars, pollerVars>>

SpecUploadFiles == InitUpload /\ [][NextUploadFiles]_vars

\* SpecSession: one visit to Upload with the StatusPoller it renders in the
\* processing view and the backend behind both: the user types a url,
\* submits, watches the processing view, opens the history and comes back
SessionFrame == UNCHANGED <<sceneVars, serverVars, pollerVars>>

SessionPollerFrame == UNCHANGED <<storageVars, sceneVars, serverVars, uploadVars>>

\* leaving the processing view unmounts the StatusPoller, if one is mounted
SessionUnmount ==
    /\ IF pMounted THEN Unmount ELSE UNCHANGED pollerVars
    /\ UNCHANGED <<sceneVars, serverVars>>

SessionType == handleUrlChange(<<"http", ":", "/", "/", "x">>) /\ SessionFrame

\* the user submits again after a failed upload, until a video is accepted
SessionSubmit ==
    /\ nextVideoId \in SessionVideos /\ upRequests = EmptyBag
    /\ submit
    /\ SessionFrame

SessionSubmitAnswer(r, outcome) == submitAnswer(r, outcome) /\ SessionFrame

SessionEffect == videoIdEffect /\ SessionFrame

\* the processing view renders <StatusPoller videoId={videoId} />
SessionMount ==
    /\ ProcessingShown /\ uploader = "Upload" /\ EffectsFlushed
    /\ Mount(upVideoId)
    /\ SessionPollerFrame

SessionTick(e) == pMounted /\ IntervalTickLive(e) /\ SessionPollerFrame

SessionPollAnswer(r, outcome) == pollStatusAnswer(r, outcome) /\ SessionPollerFrame

\* the backend works on the videos it has accepted
SessionBackend(v) == v < nextVideoId /\ BackendAdvance(v) /\ SessionPollerFrame

NextSession ==
    \/ SessionType
    \/ SessionSubmit
    \/ \E r \in BagToSet(upRequests), outcome \in {"ok", "nonok"} :
          SessionSubmitAnswer(r, outcome)
    \/ SessionEffect
    \/ SessionMount
    \/ reset /\ SessionUnmount
    \/ viewHistory /\ SessionUnmount
    \/ loadVideos /\ SessionFrame
    \/ \E i \in 1..MaxUploads : rowClick(i) /\ SessionFrame
    \/ \E e \in pInterval : SessionTick(e)
    \/ \E r \in BagToSet(pRequests), outcome \in {"ok", "reject"} :
          SessionPollAnswer(r, outcome)
    \/ \E v \in SessionVideos : SessionBackend(v)

\* the status requests the session's poller can have in flight
SessionRequests ==
    [effect : 1..(MaxEffects + 1), videoId : SessionVideos, sampled : Status]

\* everything that does not wait for the user happens: upload and status
\* requests are answered, effects run, the poller's interval fires, the
\* backend finishes its work, and the 5 s refresh of VideoHistory runs
FairSession ==
    /\ WF_vars(\E r \in BagToSet(upRequests) : SessionSubmitAnswer(r, "ok"))
    /\ WF_vars(SessionEffect)
    /\ WF_vars(SessionMount)
    /\ \A e \in 1..(MaxEffects + 1) : WF_vars(SessionTick(e))
    /\ \A r \in SessionRequests :
          WF_vars(\E outcome \in {"ok", "reject"} : SessionPollAnswer(r, outcome))
    /\ SF_vars(\E r \in SessionRequests : SessionPollAnswer(r, "ok"))
    /\ \A v \in SessionVideos : WF_vars(SessionBackend(v))
    /\ WF_vars(loadVideos /\ SessionFrame)

SpecSession == InitSession /\ [][NextSession]_vars /\ FairSession

(***************************************************************************)
(* Claims about the persisted history (checked under SpecStorage).         *)
(***************************************************************************)

\* C3: after any sequence of save, delete and clear calls from an empty
\* history, the persisted history holds at most 50 entries.
C3_HistoryCapped == Len(history) <= MAX_HISTORY

\* C3 witness: a new video was saved into a history that already held 50
\* entries, and 50 entries are stored.
C3_Witness ==
    /\ lastOp.op = "save" /\ lastOp.isNew /\ lastOp.wasFull
    /\ Len(history) = MAX_HISTORY

\* C4: save of a videoId that is not yet in the history puts the video at
\* index 0, keeps every previous entry, unchanged, in its previous order, and
\* when 50 entries were stored drops exactly the last (oldest) one.
C4_NewestFirst ==
    [][(lastOp'.op = "save" /\ lastOp'.isNew) =>
          /\ Len(history') = Min(Len(history) + 1, MAX_HISTORY)
          /\ history'[1].videoId = lastOp'.videoId
          /\ \A i \in 1..(Len(history') - 1) : history'[i + 1] = history[i]
          /\ ~HasVideo(history, lastOp'.videoId)]_vars

\* C4 witness: a new video was saved into a full history; it is first and the
\* entry that was second-oldest is now the last one.
C4_Witness ==
    /\ lastOp.op = "save" /\ lastOp.isNew /\ lastOp.wasFull
    /\ history[1].videoId = lastOp.videoId
    /\ Len(history) = MAX_HISTORY
    /\ history[MAX_HISTORY].videoId < history[MAX_HISTORY - 1].videoId

\* the value of field f after { ...old, ...video }: video's when it has the
\* field, old's otherwise
Merged(old, video, f) == IF f \in DOMAIN video THEN video[f] ELSE old[f]

\* C19: no two entries of the persisted history have the same videoId; a save
\* of a videoId that is in the history leaves the list as long as it was and
\* every other entry as it was, and replaces the entry, at its index, by the
\* old entry with the saved video's fields written over it (a field that ends
\* up undefined is not persisted).
C19_OneEntryPerVideo ==
    /\ [](\A i, j \in 1..Len(history) :
             history[i].videoId = history[j].videoId => i = j)
    /\ [][(lastOp'.op = "save" /\ ~lastOp'.isNew) =>
            /\ Len(history') = Len(history)
            /\ \A i \in 1..Len(history) :
                  IF history[i].videoId # lastOp'.videoId
                  THEN history'[i] = history[i]
                  ELSE /\ history'[i].videoId = lastOp'.videoId
                       /\ \A f \in DOMAIN history[i] \cup DOMAIN lastOp'.video :
                             IF f \in OptionalFields
                                /\ Merged(history[i], lastOp'.video, f) = Undefined
                             THEN f \notin DOMAIN history'[i]
                             ELSE /\ f \in DOMAIN history'[i]
                                  /\ history'[i][f] =
                                        Merged(history[i], lastOp'.video, f)]_vars

\* a video that is not the newest entry was saved again with another status:
\* it is still the only entry of its videoId, at the index it had, and it kept
\* the fileSize the save did not mention
C19_Witness ==
    /\ lastOp.op = "save" /\ ~lastOp.isNew
    /\ Len(history) >= 3
    /\ history[2].videoId = lastOp.videoId
    /\ history[2].status = "completed"
    /\ "fileSize" \in DOMAIN history[2]
    /\ \A i \in 1..Len(history) : i # 2 => history[i].videoId # lastOp.videoId

(***************************************************************************)
(* Claims about the scene auto-selection (checked under SpecScenes).       *)
(* In a state with tlEvent = "loaded", selectedIds is what                 *)
(* autoSelectScenes returned for scenes.                                   *)
(***************************************************************************)
FirstPositive(sceneList) ==
    CHOOSE i \in 1..Len(sceneList) :
        /\ sceneList[i].sentiment = "positive"
        /\ \A j \in 1..(i - 1) : sceneList[j].sentiment # "positive"

HasPositive(sceneList) ==
    \E i \in 1..Len(sceneList) : sceneList[i].sentiment = "positive"

\* C5: for a non-empty scene list the auto-selection contains the id of the
\* first scene; for an empty scene list it is empty.
C5_FirstSceneSelected ==
    tlEvent = "loaded" =>
        IF scenes = <<>> THEN selectedIds = <<>>
        ELSE includes(selectedIds, scenes[1].id)

\* C5 witness: a list of several scenes whose first scene is not positive and
\* is not the middle one was auto-selected.
C5_Witness ==
    /\ tlEvent = "loaded"
    /\ Len(scenes) > 3
    /\ scenes[1].sentiment # "positive"
    /\ includes(selectedIds, scenes[1].id)

\* C6: when some scene is positive the auto-selection contains the id of the
\* first positive scene in list order; when none is, nothing is added for
\* sentiment: the selection is the first scene and at most the middle one.
C6_FirstPositiveSelected ==
    tlEvent = "loaded" /\ scenes # <<>> =>
        IF HasPositive(scenes)
        THEN includes(selectedIds, scenes[FirstPositive(scenes)].id)
        ELSE \/ selectedIds = <<scenes[1].id>>
             \/ /\ Len(scenes) > 3
                /\ selectedIds = <<scenes[1].id, scenes[(Len(scenes) \div 2) + 1].id>>

\* C6 witness: the first positive scene is neither the first nor the middle
\* scene, a later scene is positive too, and the first positive one is selected.
C6_Witness ==
    /\ tlEvent = "loaded"
    /\ Len(scenes) = 5
    /\ scenes[2].sentiment = "positive"
    /\ scenes[4].sentiment = "positive"
    /\ scenes[1].sentiment # "positive"
    /\ selectedIds = <<scenes[1].id, scenes[2].id, scenes[3].id>>

\* C7: for a list of n > 3 scenes the auto-selection contains the id of the
\* scene at index floor(n / 2).
C7_MiddleSceneSelected ==
    tlEvent = "loaded" /\ Len(scenes) > 3 =>
        includes(selectedIds, scenes[(Len(scenes) \div 2) + 1].id)

\* C7 witness: four scenes, none positive: the scene at index 2 is selected
\* as the middle one.
C7_Witness ==
    /\ tlEvent = "loaded"
    /\ Len(scenes) = 4
    /\ ~HasPositive(scenes)
    /\ selectedIds = <<scenes[1].id, scenes[3].id>>

\* C26: right after auto-selection no id is twice in selectedIds, and so the
\* selected ids are no more than the scenes (the scenes' ids are pairwise
\* distinct: scene_0, scene_1, ...).
C26_AutoSelectionHasNoDuplicates ==
    tlEvent = "loaded" =>
        /\ \A i, j \in 1..Len(selectedIds) :
               selectedIds[i] = selectedIds[j] => i = j
        /\ Len(selectedIds) <= Len(scenes)

(***************************************************************************)
(* Claims about the edit requests of Timeline (checked under SpecEdits).   *)
(***************************************************************************)
\* C23: every request that Timeline sends to /api/edits has at least one
\* selection, at least one aspect ratio and at least one duration, and its
\* selections are the scenes that are selected when it is sent: every
\* selection is that of a selected scene, every selected scene has exactly
\* one, and they come in the order of the scene list.
C23_EditRequestWellFormed ==
    [][editsSent' = editsSent + 1 =>
          LET sel == lastEdit'.selections
              Pos(id) == CHOOSE i \in 1..Len(scenes) : scenes[i].id = id
          IN  /\ Len(sel) >= 1
              /\ Len(lastEdit'.aspectRatios) >= 1
              /\ Len(lastEdit'.durationsSec) >= 1
              /\ \A k \in 1..Len(sel) :
                     /\ \E i \in 1..Len(scenes) : scenes[i].id = sel[k]
                     /\ \E j \in 1..Len(selectedIds) : selectedIds[j] = sel[k]
              /\ \A i \in 1..Len(scenes) :
                     (\E j \in 1..Len(selectedIds) : selectedIds[j] = scenes[i].id)
                        => Cardinality({k \in 1..Len(sel) : sel[k] = scenes[i].id}) = 1
              /\ \A k, l \in 1..Len(sel) : k < l => Pos(sel[k]) < Pos(sel[l])]_vars

(***************************************************************************)
(* Claims about TemplateSelector (checked under SpecTemplates).            *)
(***************************************************************************)
\* C22: handleGenerate invokes onGenerate exactly when at least one aspect
\* ratio and at least one duration are selected, and then with the selected
\* template and the current aspect ratios, durations and caption style; when
\* either list is empty it invokes nothing and leaves the selected template,
\* the aspect ratios, the durations and the caption style as they are.
C22_GenerateNeedsRatioAndDuration ==
    [][tsLast'.kind = "generate" =>
          /\ tsLast'.called <=>
                 (Len(customAspectRatios) >= 1 /\ Len(customDurations) >= 1)
          /\ tsLast'.called =>
                 /\ tsLast'.template = selectedTemplate
                 /\ tsLast'.customizations.aspectRatios = customAspectRatios
                 /\ tsLast'.customizations.durationsSec = customDurations
                 /\ tsLast'.customizations.captions = customCaptions
          /\ ~tsLast'.called =>
                 /\ selectedTemplate' = selectedTemplate
                 /\ customAspectRatios' = customAspectRatios
                 /\ customDurations' = customDurations
                 /\ customCaptions' = customCaptions]_vars

\* handleGenerate ran with durations selected and no aspect ratio left
C22_Witness ==
    /\ tsLast.kind = "generate" /\ ~tsLast.called
    /\ customAspectRatios = <<>> /\ Len(customDurations) = 2

(***************************************************************************)
(* Claims about the server-side videoStore (checked under SpecServer).     *)
(***************************************************************************)
\* C2: under any sequence of uploads and simulated-processing timer steps no
\* record of videoStore disappears and no record's status returns to an
\* earlier status of uploading -> processing -> indexing -> completed.
C2_StatusMonotone ==
    [][\A id \in DOMAIN videoStore :
          /\ id \in DOMAIN videoStore'
          /\ Rank(videoStore'[id].status) >= Rank(videoStore[id].status)
          /\ Rank(videoStore'[id].status) > 0]_vars

\* C2 witness: one video has run through all four timer steps and is
\* completed while a second one, uploaded as well, is still processing.
C2_Witness ==
    \E a, b \in DOMAIN videoStore :
        /\ videoStore[a].status = "completed"
        /\ videoStore[a].progress = 100
        /\ videoStore[b].status = "processing"
        /\ videoStore[b].progress = 50

\* C13: a POST whose form has a file, or has no file and a url that new URL()
\* accepts, answers 201 with status uploading and the id of one new record:
\* the id was not in videoStore before, the record has status uploading and
\* progress 0, and every record that was in the store is unchanged.  (A POST
\* whose body cannot be read answers 500 and is not such a POST.)
C13_PostAddsOneRecord ==
    [][ (srvEvent'.code \in {201, 400}
          /\ (srvEvent'.file \/ (srvEvent'.url # <<>> /\ URLparses(srvEvent'.url)))) =>
           /\ srvEvent'.code = 201
           /\ srvEvent'.body = "uploading"
           /\ srvEvent'.videoId \notin DOMAIN videoStore
           /\ DOMAIN videoStore' = DOMAIN videoStore \cup {srvEvent'.videoId}
           /\ videoStore'[srvEvent'.videoId].status = "uploading"
           /\ videoStore'[srvEvent'.videoId].progress = 0
           /\ \A id \in DOMAIN videoStore : videoStore'[id] = videoStore[id] ]_vars

\* a second video was posted by url while the first one was already processing
C13_Witness ==
    /\ srvEvent.code = 201 /\ ~srvEvent.file /\ srvEvent.url # <<>>
    /\ Cardinality(DOMAIN videoStore) = 2
    /\ videoStore[srvEvent.videoId].status = "uploading"
    /\ \E id \in DOMAIN videoStore : videoStore[id].status = "processing"

\* C14: a POST whose form has neither file nor url, or has no file and a url
\* that new URL() rejects, answers 400, leaves videoStore as it is and sets no
\* simulated-processing timer.
C14_BadPostRejected ==
    [][ (srvEvent'.code \in {201, 400}
          /\ ~srvEvent'.file
          /\ (srvEvent'.url = <<>> \/ ~URLparses(srvEvent'.url))) =>
           /\ srvEvent'.code = 400
           /\ videoStore' = videoStore
           /\ timers' = timers ]_vars

\* a malformed url was refused while a record with pending timers existed
C14_Witness ==
    /\ srvEvent.code = 400 /\ srvEvent.body = "Invalid URL provided"
    /\ srvEvent.url # <<>> /\ ~URLparses(srvEvent.url)
    /\ videoStore # <<>> /\ timers # {}

\* C15: the status route answers 404 'Video not found' for an id that is not
\* in videoStore and 200 with the record's current status, progress and
\* message for an id that is; either way it leaves videoStore (and the
\* pending timers) unchanged.
C15_StatusRouteReadsOnly ==
    [][ srvEvent'.code \in {200, 404} =>
           /\ videoStore' = videoStore
           /\ timers' = timers
           /\ IF srvEvent'.videoId \in DOMAIN videoStore
              THEN /\ srvEvent'.code = 200
                   /\ srvEvent'.body = videoStore[srvEvent'.videoId].status
                   /\ srvEvent'.progress = videoStore[srvEvent'.videoId].progress
                   /\ srvEvent'.message = videoStore[srvEvent'.videoId].message
              ELSE /\ srvEvent'.code = 404
                   /\ srvEvent'.body = "Video not found" ]_vars

\* the status of a record the timers have moved on was asked for
C15_Witness ==
    /\ srvEvent.code = 200
    /\ srvEvent.videoId \in DOMAIN videoStore
    /\ srvEvent.body = "indexing" /\ srvEvent.progress = 75
    /\ videoStore[srvEvent.videoId].status = "indexing"

\* C17: with the timers of simulateProcessing firing, every record of
\* videoStore reaches status completed with progress 100 and a timeline, and
\* has it as soon as none of its four timers is left; a record that is
\* completed keeps that status in every later step; and no record ever has
\* status error.
C17_SimulationCompletes ==
    /\ \A id \in 1..(MaxUuids + 1) :
          (id \in DOMAIN videoStore) ~>
              (/\ id \in DOMAIN videoStore
               /\ videoStore[id].status = "completed"
               /\ videoStore[id].progress = 100
               /\ videoStore[id].timeline)
    /\ [](\A id \in DOMAIN videoStore :
            /\ videoStore[id].status # "error"
            /\ (\A t \in timers : t.videoId # id) =>
                  /\ videoStore[id].status = "completed"
                  /\ videoStore[id].progress = 100
                  /\ videoStore[id].timeline)
    /\ [][\A id \in DOMAIN videoStore :
            videoStore[id].status = "completed" =>
               id \in DOMAIN videoStore' /\ videoStore'[id].status = "completed"]_vars

\* the 8 s timer of a record has just run: the record is completed and a
\* later record is still on its way
C17_Witness ==
    /\ srvEvent.code = 0 /\ srvEvent.body = "timer"
    /\ srvEvent.videoId \in DOMAIN videoStore
    /\ videoStore[srvEvent.videoId].status = "completed"
    /\ videoStore[srvEvent.videoId].progress = 100
    /\ videoStore[srvEvent.videoId].timeline
    /\ \A t \in timers : t.videoId # srvEvent.videoId
    /\ \E t \in timers : t.delay = 8000

(***************************************************************************)
(* Claims about the upload forms (checked under SpecUpload).  upLast names *)
(* the handler the last step ran, and every step of SpecUpload sets it, so *)
(* a step into a state with upLast.kind = "answer" is a step of            *)
(* submitAnswer.                                                           *)
(***************************************************************************)

\* C9: when the upload request of submit fails (fetch rejects, or the answer
\* is not ok), that step sets error, puts loading to false, leaves videoId,
\* currentView and the persisted history as they are, and issues no upload
\* request: it only takes the failed one out of the requests in flight.  The
\* only step that issues an upload request is a step of submit.
C9_FailedUploadLeavesStateAlone ==
    [][ /\ (upLast'.kind = "answer" /\ upLast'.detail # "ok") =>
              /\ upError' # "null"
              /\ upLoading' = FALSE
              /\ upVideoId' = upVideoId
              /\ currentView' = currentView
              /\ history' = history
              /\ upIssued' = upIssued
              /\ \A r \in BagToSet(upRequests') :
                     CopiesIn(r, upRequests') <= CopiesIn(r, upRequests)
        /\ upIssued' # upIssued => upLast'.kind = "submit" ]_vars

\* an upload of either form has just failed while the form was loading
C9_Witness ==
    /\ upLast.kind = "answer" /\ upLast.detail # "ok"
    /\ upError # "null" /\ ~upLoading
    /\ upIssued > 0 /\ upRequests = EmptyBag

\* C10: submit of Upload with a url that is not empty and that new URL()
\* rejects sets error to 'Please enter a valid URL', issues no request and
\* leaves loading, videoId, currentView and the history unchanged; with a url
\* that new URL() accepts it issues the upload request.
C10_InvalidUrlIssuesNoRequest ==
    [][ (upLast'.kind = "submit" /\ uploader = "Upload" /\ upUrl # <<>>) =>
           IF ~URLparses(upUrl)
           THEN /\ upError' = "Please enter a valid URL"
                /\ upIssued' = upIssued
                /\ upRequests' = upRequests
                /\ upLoading' = upLoading
                /\ upVideoId' = upVideoId
                /\ currentView' = currentView
                /\ history' = history
           ELSE /\ upIssued' = upIssued + 1
                /\ BagCardinality(upRequests') = BagCardinality(upRequests) + 1 ]_vars

\* Upload has just refused a url that does not parse
C10_Witness ==
    /\ uploader = "Upload"
    /\ upLast = Step("submit", "invalidUrl")
    /\ upUrl # <<>> /\ ~URLparses(upUrl)
    /\ upError = "Please enter a valid URL"
    /\ upIssued = 0

\* C11: handleFileChange of Upload on a video file compares its size in MB
\* (size / 1024 / 1024) strictly: above 100 it sets the 'File too large' error
\* and leaves the selected file (and the url) as they were; above 50 and at
\* most 100 it selects the file and sets the large-file warning; at most 50
\* it selects the file and clears the error.
C11_FileSizeThresholds ==
    [][ (upLast'.kind = "fileChange" /\ uploader = "Upload" /\ upLast'.file.isVideo) =>
           LET f == upLast'.file IN
           IF f.size > 100 * 1024 * 1024
           THEN upError' = "File too large" /\ upFile' = upFile /\ upUrl' = upUrl
           ELSE IF f.size > 50 * 1024 * 1024
           THEN upFile' = f /\ upError' = "Large file detected"
           ELSE upFile' = f /\ upError' = "null" ]_vars

\* a file of exactly 100 MB is selected, then one of 100 MB and one byte is
\* refused and the first stays selected
C11_Witness ==
    /\ uploader = "Upload"
    /\ upLast.kind = "fileChange"
    /\ upLast.file.isVideo /\ upLast.file.size = 100 * MB + 1
    /\ upError = "File too large"
    /\ upFile.present /\ upFile.size = 100 * MB

\* C27: in every state of Upload the selected file, if there is one, is a
\* video of at most 100 MB, and no upload request in flight carries a file
\* of more than 100 MB.
C27_SelectedFileWithinLimit ==
    uploader = "Upload" =>
       /\ upFile.present => (upFile.isVideo /\ upFile.size <= 100 * MB)
       /\ \A r \in BagToSet(upRequests) :
              r.fileSize # Undefined => r.fileSize[1] <= 100 * MB

\* C28: Upload never has more than one upload request in flight, and an
\* answer that changes the view is the answer to the submit that is pending:
\* loading is still set when it arrives, no reset came in between.
C28_OneUploadInFlight ==
    /\ [](uploader = "Upload" => BagCardinality(upRequests) <= 1)
    /\ [][(uploader = "Upload" /\ upLast'.kind = "answer"
               /\ currentView' # currentView) => upLoading]_vars

C18_CompletedReachesHistory ==
    \A v \in SessionVideos :
       (HasVideo(history, v) /\ backend[v] = "completed")
          ~> (HasVideo(history, v) /\ get(history, v).status = "completed")

\* C20: a click on a row of VideoHistory whose status is not completed leaves
\* Upload's videoId and currentView as they are; a click that changes either
\* of them was on a row whose stored status is completed, and makes that
\* row's videoId the videoId and processing the current view.
C20_OnlyCompletedSelectable ==
    [][ upLast'.kind = "rowClick" =>
           /\ upLast'.detail # "completed" =>
                 upVideoId' = upVideoId /\ currentView' = currentView
           /\ (upVideoId' # upVideoId \/ currentView' # currentView) =>
                 /\ HasVideo(history, upLast'.videoId)
                 /\ get(history, upLast'.videoId).status = "completed"
                 /\ upVideoId' = upLast'.videoId
                 /\ currentView' = "processing" ]_vars

\* with a completed video and a video still processing in the list, the row
\* of the latter was clicked: VideoHistory is still shown
C20_Witness ==
    /\ upLast.kind = "rowClick" /\ upLast.detail = "processing"
    /\ currentView = "history"
    /\ \E i \in 1..Len(hvVideos) : hvVideos[i].status = "completed"
    /\ \E i \in 1..Len(hvVideos) : hvVideos[i].videoId = upLast.videoId

(***************************************************************************)
(* Claims about the status pollers (checked under SpecPoller).  pLast      *)
(* describes the step that led to the state: for an answer, the effect     *)
(* whose request was answered, the outcome, the status the answer carries, *)
(* and whether that effect's interval was active before.                   *)
(***************************************************************************)

\* C1: polling stops exactly on terminal states.  After an answer with
\* status completed or error the interval of the polling effect is cleared,
\* and an effect that handled such an answer issues no further request;
\* an answer with status uploading, processing or indexing leaves an active
\* interval active, and a tick of the interval issues a request for the
\* effect's videoId.
C1_PollingStopsOnTerminal ==
    /\ (pLast.kind = "answer" /\ pLast.outcome = "ok"
            /\ pLast.status \in TerminalStatus)
          => pLast.effect \notin pInterval
    /\ (pLast.kind = "answer" /\ pLast.outcome = "ok"
            /\ pLast.status \notin TerminalStatus /\ pLast.wasActive)
          => pLast.effect \in pInterval
    /\ pLast.kind = "tick"
          => /\ pLast.effect \notin pDone
             /\ \E r \in BagToSet(pRequests) :
                    r.effect = pLast.effect /\ r.videoId = pClosure[pLast.effect]

\* C1 witness: one effect polled twice: the answers were a non-terminal one,
\* after which the interval ticked, and completed, which cleared the interval
\* that was active until then.
C1_Witness ==
    /\ pEffect = 1 /\ pIssued = 2 /\ pRequests = EmptyBag
    /\ pLast.kind = "answer" /\ pLast.outcome = "ok" /\ pLast.status = "completed"
    /\ pLast.wasActive
    /\ pStatus.status = "completed"
    /\ pInterval = {}

\* the status requests of effect e that are in flight
InFlight(requests, e) ==
    BagCardinality([r \in { q \in BagToSet(requests) : q.effect = e } |->
                       CopiesIn(r, requests)])

\* C21: cancellation is clearing the timer.  Once a poller is unmounted or
\* its videoId prop has changed, no interval of an earlier effect is set:
\* the only interval there can be is that of the current effect of a
\* mounted poller; and no step issues a status request on behalf of an
\* effect that is not the current effect of a mounted poller.
C21_CleanupClearsInterval ==
    /\ [](pInterval \subseteq (IF pMounted THEN {pEffect} ELSE {}))
    /\ [][\A e \in 1..pEffect :
             (~pMounted' \/ e # pEffect')
                => InFlight(pRequests', e) <= InFlight(pRequests, e)]_vars

\* the videoId prop changed while the first effect's interval was running
\* and its first request was unanswered: only the new effect's interval is
\* set
C21_Witness ==
    /\ pMounted /\ pEffect = 2 /\ pLast.kind = "effect"
    /\ pClosure[1] # pClosure[2]
    /\ InFlight(pRequests, 1) = 1 /\ InFlight(pRequests, 2) = 1
    /\ pInterval = {2}

\* C24: once a mounted poller displays a terminal status (completed or
\* error) for its videoId, no step makes it display a status of that
\* videoId that is not terminal, as long as it stays mounted with that
\* videoId; and whenever a poller that displays a status of its videoId has
\* no interval left, that status is terminal.
C24_TerminalDisplayStays ==
    /\ [][(/\ pMounted /\ pMounted'
            /\ pEffect' = pEffect
            /\ pStatus.id = videoIdProp
            /\ pStatus.status \in TerminalStatus
            /\ pStatus'.id = videoIdProp)
              => pStatus'.status \in TerminalStatus]_vars
    /\ []((pMounted /\ pStatus.id = videoIdProp /\ pInterval = {})
              => pStatus.status \in TerminalStatus)

\* C25: what a mounted poller displays belongs to its current videoId: a
\* displayed status carries the id of the videoId prop, and an answer that
\* changes the display answers a request issued for the current videoId.
C25_DisplayBelongsToCurrentVideo ==
    /\ []((pMounted /\ pStatus.id # 0) => pStatus.id = videoIdProp)
    /\ [][(pMounted' /\ pLast'.kind = "answer" /\ pStatus' # pStatus)
              => pClosure[pLast'.effect] = videoIdProp]_vars

\* C12: a poller that gets mounted reaches a state in which it displays a
\* terminal status (completed or error) and has no interval left running,
\* given that the interval fires fairly, every status request is answered and
\* the polled record reaches a terminal status.  (Whether the display then
\* stays terminal is another matter: an answer that was overtaken arrives
\* later and is displayed.)
C12_PollingTerminates ==
    <>pMounted => <>(pStatus.status \in TerminalStatus /\ pInterval = {})

\* the poller saw a non-terminal answer, polled again from its interval and
\* stopped on the endpoint's terminal status
C12_Witness ==
    /\ pMounted /\ pDone = {pEffect}
    /\ backend[videoIdProp] \in TerminalStatus
    /\ pStatus.status = backend[videoIdProp]
    /\ pLast.kind = "answer" /\ pLast.outcome = "ok" /\ pLast.wasActive
    /\ pInterval = {} /\ pRequests = EmptyBag

\* C8: in every status poller a poll that fails (fetch rejects, or the
\* answer is non-OK) leaves the displayed status error and the interval
\* cleared.
C8_FailedPollStops ==
    (pLast.kind = "answer" /\ pLast.outcome # "ok") =>
        /\ pLast.effect \notin pInterval
        /\ pLast.live => pStatus.status = "error"

====
